---- MODULE Spec2Model ----
(***************************************************************************)
(* Model of the e-Gov law server's three-tier cache (src/src/lib/cache.ts) *)
(* and of the request path that uses it (getLawData and extractArticle in  *)
(* the cached index.ts, src/unnamed/part_000 lines 298-897).               *)
(*                                                                         *)
(* The three tiers are instances of LRUCache from the lru-cache package,   *)
(* constructed with { max, ttl } only, so every other option has the       *)
(* package's default: no updateAgeOnGet, no allowStale, no ttlAutopurge,   *)
(* noDeleteOnStaleGet false, noUpdateTTL false.  LRUGet / LRUSet / LRUClear *)
(* below are that class with those defaults.                               *)
(*                                                                         *)
(* JavaScript is single-threaded: an async function runs without           *)
(* interruption up to its first real suspension, and all promise           *)
(* continuations made runnable by one I/O completion run (in registration  *)
(* order) before the next I/O event is taken.                              *)
(***************************************************************************)
EXTENDS Integers, Sequences, FiniteSets, TLC

\* ------------------------------------------------------------------------
\* JavaScript values
\* ------------------------------------------------------------------------

\* The JavaScript value undefined, where a string is expected (an omitted
\* argument, a missing attribute).  No input string of the model equals it.
Undefined == "\\undefined"

\* A variant that takes every optional string as given.
TruthyAlways(s) == TRUE

\* A variant that takes every optional string as omitted.
TruthyNever(s) == FALSE

\* JavaScript truthiness of an optional string: undefined and "" are falsy.
Truthy(s) == s # Undefined /\ s # ""

\* The result of LRUCache.get: undefined, or the stored value.
None == [present |-> FALSE]

Some(v) == [present |-> TRUE, value |-> v]

\* ------------------------------------------------------------------------
\* Tier configuration (cache.ts lines 44-59).  Times are in milliseconds.
\* ------------------------------------------------------------------------

LookupMax == 200

LookupTTL == 6 * 60 * 60 * 1000

ContentMax == 20

ContentTTL == 45 * 60 * 1000

ArticleMax == 200

ArticleTTL == 10 * 60 * 1000

Tiers == {"lookup", "content", "article"}

TierMax(tier) ==
  CASE tier = "lookup" -> LookupMax
    [] tier = "content" -> ContentMax
    [] tier = "article" -> ArticleMax

\* Variant: the tiers are constructed without a ttl (no expiry).
TierTTLOmitted(tier) == 0

TierTTL(tier) ==
  CASE tier = "lookup" -> LookupTTL
    [] tier = "content" -> ContentTTL
    [] tier = "article" -> ArticleTTL

\* ------------------------------------------------------------------------
\* LRUCache (lru-cache, options max and ttl, all others default).
\* A cache is the sequence of its entries from least to most recently used;
\* an entry is [key, value, start], start being the time of the set.
\* ------------------------------------------------------------------------

IndexOf(cache, k) ==
  IF \E i \in 1..Len(cache) : cache[i].key = k
  THEN CHOOSE i \in 1..Len(cache) : cache[i].key = k
  ELSE 0

RemoveAt(cache, i) ==
  SubSeq(cache, 1, i - 1) \o SubSeq(cache, i + 1, Len(cache))

CacheKeys(cache) == {cache[i].key : i \in 1..Len(cache)}

\* isStale: a ttl of 0 or a start of 0 means "no expiry"; otherwise the entry
\* is stale once its age is strictly greater than the ttl.
IsStale(entry, ttl, t) ==
  ttl # 0 /\ entry.start # 0 /\ t - entry.start > ttl

\* Variant: a hit leaves the order of the entries as it is.
LRUGetUnmoved(cache, ttl, k, t) ==
  LET i == IndexOf(cache, k) IN
  IF i = 0 THEN [cache |-> cache, value |-> None]
  ELSE IF IsStale(cache[i], ttl, t)
       THEN [cache |-> RemoveAt(cache, i), value |-> None]
       ELSE [cache |-> cache, value |-> Some(cache[i].value)]

\* get(k): a missing key gives undefined; a stale entry is deleted and gives
\* undefined; a live entry is moved to the most-recent end and its value is
\* returned.  Its start is left as it is (updateAgeOnGet is false).
LRUGet(cache, ttl, k, t) ==
  LET i == IndexOf(cache, k) IN
  IF i = 0 THEN [cache |-> cache, value |-> None]
  ELSE IF IsStale(cache[i], ttl, t)
       THEN [cache |-> RemoveAt(cache, i), value |-> None]
       ELSE [cache |-> Append(RemoveAt(cache, i), cache[i]),
             value |-> Some(cache[i].value)]

\* Variant: a new key is appended without evicting (no max).
LRUSetUnbounded(cache, max, k, v, t) ==
  LET i == IndexOf(cache, k)
      e == [key |-> k, value |-> v, start |-> t] IN
  IF i # 0 THEN Append(RemoveAt(cache, i), e) ELSE Append(cache, e)

\* set(k, v), v never undefined: an existing key gets the new value, a new
\* start and the most-recent position; a new key is appended, after the
\* least recently used entry has been evicted if the cache is full.
LRUSet(cache, max, k, v, t) ==
  LET i == IndexOf(cache, k)
      e == [key |-> k, value |-> v, start |-> t] IN
  IF i # 0 THEN Append(RemoveAt(cache, i), e)
  ELSE IF Len(cache) >= max THEN Append(Tail(cache), e)
       ELSE Append(cache, e)

\* Variant: clear leaves the entries where they are.
LRUClearKept(cache) == cache

\* clear(): no entry is left.
LRUClear(cache) == << >>

LRUSize(cache) == Len(cache)

\* Variant: ttlAutopurge on, a timer deletes every entry as it goes stale.
ttlAutopurgeOn(cache, ttl, t) ==
  SelectSeq(cache, LAMBDA e : ~IsStale(e, ttl, t))

\* The cache when the clock has come to t and nothing was called: the option
\* ttlAutopurge is left at its default, so no timer is set and no entry is
\* deleted for its age.
ttlAutopurge(cache, ttl, t) == cache

\* ------------------------------------------------------------------------
\* Facade of cache.ts: pure parts
\* ------------------------------------------------------------------------

ZeroStats ==
  [lookup |-> [hits |-> 0, misses |-> 0],
   content |-> [hits |-> 0, misses |-> 0],
   article |-> [hits |-> 0, misses |-> 0]]

\* Variant: every get is counted as a hit.
TierGetCountsHit(tier, cache, st, k, t) ==
  LET g == LRUGet(cache, TierTTL(tier), k, t) IN
  [cache |-> g.cache,
   value |-> g.value,
   stats |-> [st EXCEPT ![tier].hits = @ + 1]]

\* The body shared by getLookupCache, getContentCache and getArticleCache:
\* get from the tier, then count a hit if a value came back, else a miss.
TierGet(tier, cache, st, k, t) ==
  LET g == LRUGet(cache, TierTTL(tier), k, t) IN
  [cache |-> g.cache,
   value |-> g.value,
   stats |-> IF g.value.present
             THEN [st EXCEPT ![tier].hits = @ + 1]
             ELSE [st EXCEPT ![tier].misses = @ + 1]]

\* A variant that stores nothing.
TierSetDropped(tier, cache, k, v, t) == cache

\* The body shared by setLookupCache, setContentCache and setArticleCache.
TierSet(tier, cache, k, v, t) == LRUSet(cache, TierMax(tier), k, v, t)

buildArticleKey(lawId, articleNum, paragraphNum, itemNum) ==
  (lawId \o "#A:" \o articleNum)
    \o (IF Truthy(paragraphNum) THEN "#P:" \o paragraphNum ELSE "")
    \o (IF Truthy(itemNum) THEN "#I:" \o itemNum ELSE "")

ContentKey(lawId) == "content:" \o lawId

\* ------------------------------------------------------------------------
\* Document trees (the JSON of the law_data endpoint).  An element is a
\* record [tag, attr, children]; a text leaf, a JavaScript string in the
\* source, is a record [text].
\* ------------------------------------------------------------------------

Text(s) == [text |-> s]

Elem(tag, attr, children) == [tag |-> tag, attr |-> attr, children |-> children]

NoAttr == << >>

\* node.tag: undefined on a text leaf.
Tag(n) == IF "tag" \in DOMAIN n THEN n.tag ELSE Undefined

\* node.attr?.Num
Num(n) ==
  IF "attr" \in DOMAIN n /\ "Num" \in DOMAIN n.attr THEN n.attr.Num ELSE Undefined

\* node.children when it is an array, else the empty list.
Children(n) == IF "children" \in DOMAIN n THEN n.children ELSE << >>

\* !node: null, undefined and the empty string are falsy.
FalsyNode(n) == "text" \in DOMAIN n /\ n.text = ""

\* Array.prototype.find: the first element satisfying the test, as a list of
\* zero (undefined) or one element.
Find(seq, Test(_)) ==
  LET hits == SelectSeq(seq, Test) IN
  IF hits = << >> THEN << >> ELSE <<Head(hits)>>

RECURSIVE findArticleRecursive(_, _)
RECURSIVE FindInChildren(_, _, _)

\* A variant of the loop that visits the children from the last to the first.
FindInChildrenReversed(children, i, articleNum) ==
  IF i > Len(children) THEN << >>
  ELSE LET found == findArticleRecursive(children[Len(children) + 1 - i],
                                         articleNum) IN
       IF found # << >> THEN found
       ELSE FindInChildren(children, i + 1, articleNum)

\* The for loop of findArticleRecursive over node.children, from index i.
FindInChildren(children, i, articleNum) ==
  IF i > Len(children) THEN << >>
  ELSE LET found == findArticleRecursive(children[i], articleNum) IN
       IF found # << >> THEN found
       ELSE FindInChildren(children, i + 1, articleNum)

\* The first Article node with the given Num in depth-first pre-order, as a
\* list of zero (null) or one node.
findArticleRecursive(node, articleNum) ==
  IF FalsyNode(node) THEN << >>
  ELSE IF Tag(node) = "Article" /\ Num(node) = articleNum THEN <<node>>
  ELSE FindInChildren(Children(node), 1, articleNum)

\* A variant that leaves the children of the node as they are.
WithChildrenKept(node, kids) == node

\* { ...node, children: kids }
WithChildren(node, kids) ==
  [f \in DOMAIN node \cup {"children"} |->
     IF f = "children" THEN kids ELSE node[f]]

\* A variant that reports the error without the metadata of the document.
NotFoundBare(lawData, message) == [error |-> message]

\* A variant that still hands out the text it searched.
NotFoundWhole(lawData, message) ==
  [lawInfo |-> lawData.law_info,
   revisionInfo |-> lawData.revision_info,
   article |-> lawData.law_full_text,
   error |-> message]

NotFound(lawData, message) ==
  [lawInfo |-> lawData.law_info,
   revisionInfo |-> lawData.revision_info,
   error |-> message]

extractArticle(lawData, articleNum, paragraphNum, itemNum) ==
  LET found == findArticleRecursive(lawData.law_full_text, articleNum) IN
  IF found = << >>
  THEN NotFound(lawData, "Article " \o articleNum \o " not found")
  ELSE
  LET article == found[1]
      paragraphs == Find(Children(article),
                      LAMBDA c : Tag(c) = "Paragraph" /\ Num(c) = paragraphNum)
      note == ("Showing Article " \o articleNum)
                \o (IF Truthy(paragraphNum)
                    THEN ", Paragraph " \o paragraphNum ELSE "")
                \o (IF Truthy(itemNum) THEN ", Item " \o itemNum ELSE "")
  IN
  IF ~Truthy(paragraphNum)
  THEN [lawInfo |-> lawData.law_info,
        revisionInfo |-> lawData.revision_info,
        article |-> article,
        note |-> note]
  ELSE IF paragraphs = << >>
  THEN NotFound(lawData, "Article " \o articleNum \o ", Paragraph "
                           \o paragraphNum \o " not found")
  ELSE
  LET targetParagraph == paragraphs[1]
      items == Find(Children(targetParagraph),
                 LAMBDA c : Tag(c) = "Item" /\ Num(c) = itemNum)
      filteredParagraph ==
        IF Truthy(itemNum)
        THEN WithChildren(targetParagraph,
               SelectSeq(Children(targetParagraph),
                 LAMBDA c : \/ Tag(c) = "ParagraphNum"
                            \/ Tag(c) = "ParagraphSentence"
                            \/ (Tag(c) = "Item" /\ Num(c) = itemNum)))
        ELSE targetParagraph
      filteredArticle ==
        WithChildren(article,
          SelectSeq(Children(article),
            LAMBDA c : Tag(c) = "ArticleTitle" \/ Tag(c) = "ArticleCaption")
          \o <<filteredParagraph>>)
  IN
  IF Truthy(itemNum) /\ items = << >>
  THEN NotFound(lawData, "Article " \o articleNum \o ", Paragraph "
                           \o paragraphNum \o ", Item " \o itemNum \o " not found")
  ELSE [lawInfo |-> lawData.law_info,
        revisionInfo |-> lawData.revision_info,
        article |-> filteredArticle,
        note |-> note]

RECURSIVE collectArticles(_)
RECURSIVE CollectInChildren(_, _)

CollectInChildren(children, i) ==
  IF i > Len(children) THEN << >>
  ELSE collectArticles(children[i]) \o CollectInChildren(children, i + 1)

\* Every Article node of the tree in pre-order (the list the source pushes to).
collectArticles(node) ==
  IF FalsyNode(node) THEN << >>
  ELSE (IF Tag(node) = "Article" THEN <<node>> ELSE << >>)
         \o CollectInChildren(Children(node), 1)

\* A variant that joins only the text leaves directly below the node.
extractTextDirect(found) ==
  IF found = << >> THEN ""
  ELSE IF "text" \in DOMAIN found[1] THEN found[1].text
  ELSE LET kids == Children(found[1])
           Join[i \in 0..Len(kids)] ==
             IF i = 0 THEN ""
             ELSE Join[i - 1] \o (IF "text" \in DOMAIN kids[i]
                                  THEN kids[i].text ELSE "")
       IN Join[Len(kids)]

RECURSIVE extractTextFromNode(_)
RECURSIVE JoinTexts(_, _)

JoinTexts(children, i) ==
  IF i > Len(children) THEN ""
  ELSE extractTextFromNode(<<children[i]>>) \o JoinTexts(children, i + 1)

\* The argument is the result of a find: zero (undefined) or one node.
extractTextFromNode(found) ==
  IF found = << >> THEN ""
  ELSE IF "text" \in DOMAIN found[1] THEN found[1].text
  ELSE JoinTexts(Children(found[1]), 1)

SummaryLimit == 20

extractArticlesSummary(lawFullText) ==
  LET articles == collectArticles(lawFullText)
      n == IF Len(articles) < SummaryLimit THEN Len(articles) ELSE SummaryLimit
  IN [i \in 1..n |->
        [articleNum |-> Num(articles[i]),
         title |-> extractTextFromNode(
                     Find(Children(articles[i]), LAMBDA c : Tag(c) = "ArticleTitle")),
         caption |-> extractTextFromNode(
                     Find(Children(articles[i]), LAMBDA c : Tag(c) = "ArticleCaption"))]]

\* The value getLawData returns for a request without an article number.
Summary(lawData) ==
  [lawInfo |-> lawData.law_info,
   revisionInfo |-> lawData.revision_info,
   articlesSummary |-> extractArticlesSummary(lawData.law_full_text),
   note |-> "This is a summary. Use articleNum parameter to get specific articles."]

\* Variant: extractArticle narrows the document it is given in place, so
\* that afterwards its text is the article returned.
AfterExtractArticleInPlace(lawData, articleNum, paragraphNum, itemNum) ==
  LET r == extractArticle(lawData, articleNum, paragraphNum, itemNum) IN
  IF "article" \in DOMAIN r
  THEN [lawData EXCEPT !.law_full_text = r.article]
  ELSE lawData

\* The document object as extractArticle leaves it.  The function assigns
\* to its local variables only; what it returns is built with filter and
\* with object spreads, which make new arrays and objects, so no property
\* of the document is written.
AfterExtractArticle(lawData, articleNum, paragraphNum, itemNum) == lawData

\* The document object as extractArticlesSummary leaves it: collectArticles
\* pushes to its own list, slice and map make new arrays.
AfterExtractArticlesSummary(lawData) == lawData

\* A cache whose entries hold the object `before`, once that object has
\* become `after`: the entries hold references, not copies.
Aliased(cache, before, after) ==
  [i \in DOMAIN cache |->
     IF cache[i].value = before THEN [cache[i] EXCEPT !.value = after]
     ELSE cache[i]]

\* ------------------------------------------------------------------------
\* The upstream document source and the requests of the model
\* ------------------------------------------------------------------------

\* Bounds of the model.
MaxRequests == 2

MaxTicks == 1

LawIds == {"340AC0000000034", "363AC0000000108"}

Revisions == {1, 2}

\* The tree of a small law: one article with a caption, a title and two
\* paragraphs, the first with two items.  The revision shows in the text.
LawTree(rev) ==
  Elem("Law", NoAttr, <<
    Elem("LawBody", NoAttr, <<
      Elem("Article", [Num |-> "1"], <<
        Elem("ArticleCaption", NoAttr, <<Text("caption")>>),
        Elem("ArticleTitle", NoAttr, <<Text("title")>>),
        Elem("Paragraph", [Num |-> "1"], <<
          Elem("ParagraphNum", NoAttr, << >>),
          Elem("ParagraphSentence", NoAttr, <<Text(ToString(rev))>>),
          Elem("Item", [Num |-> "1"], <<Text("i1")>>),
          Elem("Item", [Num |-> "2"], <<Text("i2")>>) >>),
        Elem("Paragraph", [Num |-> "2"], <<
          Elem("ParagraphNum", NoAttr, <<Text("2")>>) >>) >>) >>) >>)

\* What response.json() gives for a law id at a revision of the law.
LawData(lawId, rev) ==
  [law_info |-> [law_id |-> lawId],
   revision_info |-> [law_revision_id |-> lawId \o "_" \o ToString(rev)],
   law_full_text |-> LawTree(rev)]

\* The ways the fetcher passed by getLawData can fail: response.ok false,
\* or fetch itself rejecting.
FetchErrors == {"e-Gov API error: 500 Internal Server Error", "fetch failed"}

\* How a fetch for lawId can settle.
Outcomes(lawId) ==
  {[ok |-> TRUE, value |-> LawData(lawId, rev)] : rev \in Revisions}
    \cup {[ok |-> FALSE, value |-> [message |-> e]] : e \in FetchErrors}

\* The locators requests are made with: <<articleNum, paragraphNum, itemNum>>.
Locators ==
  { <<Undefined, "1", Undefined>>,
    <<"1", "1", "2">> }

\* How far the clock moves in one step: far enough for every Content and
\* Article entry to expire.
Deltas == {ContentTTL + 1}

\* ------------------------------------------------------------------------
\* State
\* ------------------------------------------------------------------------

VARIABLES
  now,               \* the clock LRUCache reads (performance.now()), ms
  ticks,             \* how often the clock has moved
  lookupCache,       \* the three LRUCache instances
  contentCache,
  articleCache,
  stats,             \* the hit and miss counters
  inflightRequests,  \* the Map, as the set of its [key, promise] bindings;
                     \* a promise is named by the number of its fetch
  fetches,           \* every fetcher invocation so far: [key, lawId, status,
                     \* value]; the value is kept until the waiters have run
  requests,          \* every getLawData call so far; a call that has returned
                     \* is kept until the continuations running now are done
  microtasks,        \* continuations made runnable and not yet run, in order
  draining,          \* a run of continuations has begun and is not finished
  focus,             \* TierSpec: the tier whose functions are called
  ops,               \* TierSpec: how many calls have been made
  last,              \* the last call: in TierSpec with its result and its
                     \* effect; in Spec the last getLawData or clearAllCaches
  written,           \* TierSpec: per key, the last set still in force
  recency,           \* TierSpec: the keys held, by last set or successful get
  gets               \* TierSpec: the gets made since the counters were zeroed

vars ==
  <<now, ticks, lookupCache, contentCache, articleCache, stats,
    inflightRequests, fetches, requests, microtasks, draining,
    focus, ops, last, written, recency, gets>>

\* What the request path keeps, and what only TierSpec records.
requestState == <<inflightRequests, fetches, requests, microtasks, draining>>

tierRecord == <<focus, ops, last, written, recency, gets>>

PendingFetches == {f \in 1..Len(fetches) : fetches[f].status = "pending"}

\* The fetch for lawId that is unresolved, or 0.
PendingFor(lawId) ==
  IF \E f \in PendingFetches : fetches[f].lawId = lawId
  THEN CHOOSE f \in PendingFetches : fetches[f].lawId = lawId
  ELSE 0

Init ==
  /\ now = 1
  /\ ticks = 0
  /\ lookupCache = << >>
  /\ contentCache = << >>
  /\ articleCache = << >>
  /\ stats = ZeroStats
  /\ inflightRequests = {}
  /\ fetches = << >>
  /\ requests = << >>
  /\ microtasks = << >>
  /\ draining = FALSE
  /\ focus = "content"
  /\ ops = 0
  /\ last = [op |-> "none"]
  /\ written = << >>
  /\ recency = << >>
  /\ gets = 0

\* ------------------------------------------------------------------------
\* The in-flight registry and the single-flight coordinator
\* ------------------------------------------------------------------------

MapHas(map, key) == \E b \in map : b.key = key

MapGet(map, key) == (CHOOSE b \in map : b.key = key).promise

MapSet(map, key, promise) ==
  {b \in map : b.key # key} \cup {[key |-> key, promise |-> promise]}

MapDelete(map, key) == {b \in map : b.key # key}

Pending == [ok |-> FALSE, value |-> [pending |-> TRUE]]

\* An Error object.
Error(message) == [message |-> message]

\* Variant: the new promise is never put into the registry.
withInflightSuppressionUnregistered(map, fs, key, lawId) ==
  IF MapHas(map, key)
  THEN [map |-> map, fetches |-> fs, promise |-> MapGet(map, key)]
  ELSE [map |-> map,
        fetches |-> Append(fs, [key |-> key, lawId |-> lawId,
                                   status |-> "pending", value |-> Pending.value]),
        promise |-> Len(fs) + 1]

\* withInflightSuppression up to its return: with the key registered, the
\* registered promise is returned and the fetcher is not called; otherwise
\* the fetcher is called (a new fetch, whose request is sent before the call
\* returns) and its promise is registered under the key.
withInflightSuppression(map, fs, key, lawId) ==
  IF MapHas(map, key)
  THEN [map |-> map, fetches |-> fs, promise |-> MapGet(map, key)]
  ELSE [map |-> MapSet(map, key, Len(fs) + 1),
        fetches |-> Append(fs, [key |-> key, lawId |-> lawId,
                                   status |-> "pending", value |-> Pending.value]),
        promise |-> Len(fs) + 1]

\* Variant: on a miss the fetcher is called directly, without the coordinator.
getContentCacheWithFetchDirect(cache, st, map, fs, lawId, t) ==
  LET g == TierGet("content", cache, st, lawId, t) IN
  IF g.value.present
  THEN [cache |-> g.cache, stats |-> g.stats, map |-> map, fetches |-> fs,
        cached |-> g.value, promise |-> 0]
  ELSE [cache |-> g.cache, stats |-> g.stats, map |-> map,
        fetches |-> Append(fs, [key |-> ContentKey(lawId), lawId |-> lawId,
                                   status |-> "pending", value |-> Pending.value]),
        cached |-> None, promise |-> Len(fs) + 1]

\* getContentCacheWithFetch up to its return: a cached value is returned
\* at once (promise 0), else the promise of the coordinator.
getContentCacheWithFetch(cache, st, map, fs, lawId, t) ==
  LET g == TierGet("content", cache, st, lawId, t)
      w == withInflightSuppression(map, fs, ContentKey(lawId), lawId)
  IN IF g.value.present
     THEN [cache |-> g.cache, stats |-> g.stats, map |-> map, fetches |-> fs,
           cached |-> g.value, promise |-> 0]
     ELSE [cache |-> g.cache, stats |-> g.stats, map |-> w.map, fetches |-> w.fetches,
           cached |-> None, promise |-> w.promise]

\* ------------------------------------------------------------------------
\* Operations
\* ------------------------------------------------------------------------

\* A call that has returned, and the value of a promise whose waiters have
\* all run, are of no further use to the program: the next event drops them.
Gone == [pc |-> "gone"]

RetiredRequests ==
  [r \in 1..Len(requests) |->
     IF requests[r].pc = "done" THEN Gone ELSE requests[r]]

RetiredFetches ==
  [f \in 1..Len(fetches) |->
     IF fetches[f].status = "pending" THEN fetches[f]
     ELSE [fetches[f] EXCEPT !.value = [gone |-> TRUE]]]

\* Variant: the Article tier is used whatever the article number is.
HasArticleAlways(articleNum) == TRUE

\* if (articleNum): the request names an article.
HasArticle(articleNum) == Truthy(articleNum)

\* Variant: whatever the fetch settled with is stored.
StoreFetchedAlways(cache, lawId, outcome, t) ==
  TierSet("content", cache, lawId, outcome.value, t)

\* Variant: nothing is stored.
StoreFetchedNever(cache, lawId, outcome, t) == cache

\* The wrapper getContentCacheWithFetch gives the coordinator, after its
\* await: data that arrived is stored in the Content tier; a failure
\* propagates and stores nothing.
StoreFetched(cache, lawId, outcome, t) ==
  IF outcome.ok THEN TierSet("content", cache, lawId, outcome.value, t) ELSE cache

\* Variant: then instead of finally, the key is deleted on success only.
UnregisterOnSuccess(map, key, outcome) ==
  IF outcome.ok THEN MapDelete(map, key) ELSE map

\* Variant: the key is never deleted.
UnregisterNever(map, key, outcome) == map

\* The finally callback of the coordinator: the key is deleted however the
\* fetch settled.
Unregister(map, key, outcome) == MapDelete(map, key)

\* The three tiers when the clock has come to t.
TiersAt(t) ==
  /\ lookupCache' = ttlAutopurge(lookupCache, TierTTL("lookup"), t)
  /\ contentCache' = ttlAutopurge(contentCache, TierTTL("content"), t)
  /\ articleCache' = ttlAutopurge(articleCache, TierTTL("article"), t)

\* A call getLawData(lawId, articleNum, paragraphNum, itemNum), up to its
\* first suspension or its return.
CallGetLawData(lawId, loc) ==
  LET articleNum == loc[1]
      paragraphNum == loc[2]
      itemNum == loc[3]
      a == TierGet("article", articleCache, stats,
                   buildArticleKey(lawId, articleNum, paragraphNum, itemNum), now)
      articleHit == HasArticle(articleNum) /\ a.value.present
      stats1 == IF HasArticle(articleNum) THEN a.stats ELSE stats
      c == getContentCacheWithFetch(contentCache, stats1, inflightRequests,
                                     RetiredFetches, lawId, now)
      r == Len(requests) + 1
      call == [lawId |-> lawId, articleNum |-> articleNum,
               paragraphNum |-> paragraphNum, itemNum |-> itemNum,
               pendingAtCall |-> PendingFor(lawId)]
  IN
  /\ ~draining
  /\ Len(requests) < MaxRequests
  /\ articleCache' = IF HasArticle(articleNum) THEN a.cache ELSE articleCache
  /\ IF articleHit
     THEN /\ stats' = stats1
          /\ requests' = Append(RetiredRequests,
               [call |-> call, pc |-> "done", path |-> "article", promise |-> 0,
                observed |-> None,
                result |-> Some([ok |-> TRUE, value |-> a.value.value])])
          /\ fetches' = RetiredFetches
          /\ UNCHANGED <<contentCache, inflightRequests, microtasks>>
     ELSE /\ stats' = c.stats
          /\ contentCache' = c.cache
          /\ inflightRequests' = c.map
          /\ fetches' = c.fetches
          /\ requests' = Append(RetiredRequests,
               [call |-> call, pc |-> "await",
                path |-> IF c.cached.present THEN "content"
                         ELSE IF Len(c.fetches) > Len(fetches) THEN "fetch" ELSE "join",
                promise |-> c.promise,
                observed |-> None, result |-> None])
          /\ microtasks' =
               IF c.cached.present
               THEN Append(microtasks,
                      [req |-> r, settled |-> [ok |-> TRUE, value |-> c.cached.value]])
               ELSE microtasks
  /\ last' = [op |-> "getLawData"]
  /\ UNCHANGED <<now, ticks, lookupCache, draining>>
  /\ UNCHANGED <<focus, ops, written, recency, gets>>

\* The requests awaiting promise f, in the order they began to wait.
Waiters(f) ==
  SelectSeq([r \in 1..Len(requests) |-> r],
            LAMBDA r : requests[r].pc = "await" /\ requests[r].promise = f)

\* The upstream fetch f settles with the given outcome.  On success the
\* wrapper given to the coordinator stores the data in the Content tier; then
\* the finally callback deletes the key; then the waiters become runnable.
SettleFetch(f, outcome) ==
  /\ f \in PendingFetches
  /\ microtasks = << >>
  /\ outcome \in Outcomes(fetches[f].lawId)
  /\ contentCache' = StoreFetched(contentCache, fetches[f].lawId, outcome, now)
  /\ inflightRequests' = Unregister(inflightRequests, fetches[f].key, outcome)
  /\ fetches' = [RetiredFetches EXCEPT
       ![f].status = IF outcome.ok THEN "fulfilled" ELSE "rejected",
       ![f].value = outcome.value]
  /\ microtasks' =
       LET ws == Waiters(f) IN
       [i \in 1..Len(ws) |->
          [req |-> ws[i], settled |-> outcome]]
  /\ draining' = (Waiters(f) # << >>)
  /\ requests' = RetiredRequests
  /\ UNCHANGED <<now, ticks, lookupCache, articleCache, stats>>
  /\ UNCHANGED tierRecord

\* The first runnable continuation runs: getLawData after its await.
Resume ==
  /\ microtasks # << >>
  /\ LET m == Head(microtasks)
         q == requests[m.req].call
         key == buildArticleKey(q.lawId, q.articleNum, q.paragraphNum, q.itemNum)
         result == IF HasArticle(q.articleNum)
                   THEN extractArticle(m.settled.value, q.articleNum,
                                       q.paragraphNum, q.itemNum)
                   ELSE Summary(m.settled.value)
     IN
     /\ articleCache' =
          IF m.settled.ok /\ HasArticle(q.articleNum)
          THEN TierSet("article", articleCache, key, result, now)
          ELSE articleCache
     /\ requests' = [requests EXCEPT ![m.req] =
          [@ EXCEPT !.pc = "done",
                    !.observed = Some(m.settled),
                    !.result = IF m.settled.ok
                               THEN Some([ok |-> TRUE, value |-> result])
                               ELSE Some(m.settled)]]
     /\ contentCache' =
          IF ~m.settled.ok THEN contentCache
          ELSE Aliased(contentCache, m.settled.value,
                 IF HasArticle(q.articleNum)
                 THEN AfterExtractArticle(m.settled.value, q.articleNum,
                                          q.paragraphNum, q.itemNum)
                 ELSE AfterExtractArticlesSummary(m.settled.value))
  /\ microtasks' = Tail(microtasks)
  /\ draining' = (Tail(microtasks) # << >>)
  /\ UNCHANGED <<now, ticks, lookupCache, stats, inflightRequests, fetches>>
  /\ UNCHANGED tierRecord

\* The three tiers and the counters, and their next values.
TiersAndStats ==
  [lookup |-> lookupCache, content |-> contentCache, article |-> articleCache,
   stats |-> stats]

SetTiersAndStats(s) ==
  /\ lookupCache' = s.lookup
  /\ contentCache' = s.content
  /\ articleCache' = s.article
  /\ stats' = s.stats

\* Variant: the reset empties the tiers as well.
ResetClearing(s) ==
  [lookup |-> << >>, content |-> << >>, article |-> << >>, stats |-> ZeroStats]

\* The body of resetCacheStats: the six counters are set to 0.
Reset(s) == [s EXCEPT !.stats = ZeroStats]

resetCacheStats ==
  /\ ~draining
  /\ SetTiersAndStats(Reset(TiersAndStats))
  /\ UNCHANGED <<now, ticks, inflightRequests, fetches, requests, microtasks,
                 draining>>
  /\ UNCHANGED tierRecord

\* Variant: the clear empties the registry of fetches as well.
clearAllCachesAndRegistry ==
  /\ ~draining
  /\ lookupCache' = LRUClear(lookupCache)
  /\ contentCache' = LRUClear(contentCache)
  /\ articleCache' = LRUClear(articleCache)
  /\ stats' = ZeroStats
  /\ inflightRequests' = {}
  /\ requests' = RetiredRequests
  /\ fetches' = RetiredFetches
  /\ last' = [op |-> "clearAllCaches"]
  /\ UNCHANGED <<now, ticks, microtasks, draining>>
  /\ UNCHANGED <<focus, ops, written, recency, gets>>

clearAllCaches ==
  /\ ~draining
  /\ lookupCache' = LRUClear(lookupCache)
  /\ contentCache' = LRUClear(contentCache)
  /\ articleCache' = LRUClear(articleCache)
  /\ stats' = ZeroStats
  /\ requests' = RetiredRequests
  /\ fetches' = RetiredFetches
  /\ last' = [op |-> "clearAllCaches"]
  /\ UNCHANGED <<now, ticks, inflightRequests, microtasks, draining>>
  /\ UNCHANGED <<focus, ops, written, recency, gets>>

\* Time passes.
Tick(d) ==
  /\ microtasks = << >>
  /\ ticks < MaxTicks
  /\ now' = now + d
  /\ ticks' = ticks + 1
  /\ TiersAt(now + d)
  /\ requests' = RetiredRequests
  /\ fetches' = RetiredFetches
  /\ UNCHANGED <<stats, inflightRequests, microtasks, draining>>
  /\ UNCHANGED tierRecord

\* ------------------------------------------------------------------------
\* JavaScript numbers are IEEE 754 doubles.  A double here is mant * 2^exp,
\* mant being its 53-bit significand as a sequence of bits, first bit first
\* (all zero for the number 0).  Every result of / and * is the exact result
\* rounded to 53 bits, to nearest, ties to even.  The integers divided are
\* below 2^15.
\* ------------------------------------------------------------------------

SignificandBits == 53

LimbBits == 20

Zeros(n) == [i \in 1..n |-> 0]

IsZero(x) == \A i \in 1..Len(x.mant) : x.mant[i] = 0

\* bits + 1; one bit longer when every bit was 1.
Inc(bits) ==
  LET zeroAt == {i \in 1..Len(bits) : bits[i] = 0} IN
  IF zeroAt = {} THEN <<1>> \o Zeros(Len(bits))
  ELSE LET k == CHOOSE i \in zeroAt : \A j \in zeroAt : j <= i IN
       [i \in 1..Len(bits) |->
          IF i < k THEN bits[i] ELSE IF i = k THEN 1 ELSE 0]

\* The double of significand bits at exponent exp, rounded up if up.
Rounded(bits, exp, up) ==
  LET inc == IF up THEN Inc(bits) ELSE bits IN
  IF Len(inc) > SignificandBits
  THEN [mant |-> SubSeq(inc, 1, SignificandBits), exp |-> exp + 1]
  ELSE [mant |-> inc, exp |-> exp]

RECURSIVE Pow2Mod(_, _)
\* 2^i modulo t, by repeated squaring.
Pow2Mod(i, t) ==
  IF i = 0 THEN 1 % t
  ELSE LET half == Pow2Mod(i \div 2, t)
           sq == (half * half) % t
       IN IF i % 2 = 1 THEN (2 * sq) % t ELSE sq

\* The remainder of h * 2^i by t: what is left of h / t after i bits of its
\* binary expansion.
RemAfter(h, t, i) == (h * Pow2Mod(i, t)) % t

\* Bit i after the point of the binary expansion of h / t, for 0 < h < t.
BitAfter(h, t, i) == IF 2 * RemAfter(h, t, i - 1) >= t THEN 1 ELSE 0

\* The number of zero bits after the point of h / t before its first 1 bit,
\* for 0 < h < t.
LeadingZeros(h, t) ==
  CHOOSE z \in 0..15 :
    /\ h * 2^(z + 1) >= t
    /\ \A y \in 0..(z - 1) : h * 2^(y + 1) < t

\* The double h / t of two integers 0 <= h <= t, 0 < t.
DoubleDiv(h, t) ==
  IF h = 0 THEN [mant |-> Zeros(SignificandBits), exp |-> 0]
  ELSE IF h = t
  THEN [mant |-> <<1>> \o Zeros(SignificandBits - 1), exp |-> 1 - SignificandBits]
  ELSE LET z == LeadingZeros(h, t)
           bits == [i \in 1..SignificandBits |-> BitAfter(h, t, z + i)]
           rem == RemAfter(h, t, z + SignificandBits)
           up == \/ 2 * rem > t
                 \/ (2 * rem = t /\ bits[SignificandBits] = 1)
       IN Rounded(bits, 0 - (z + SignificandBits), up)

\* The bits of a natural number n < 2^width, in width bits.
BitsOf(n, width) == [i \in 1..width |-> (n \div 2^(width - i)) % 2]

\* The number of bits of a natural number n < 2^30, 0 for 0.
BitLength(n) == CHOOSE w \in 0..30 : n < 2^w /\ (w = 0 \/ n >= 2^(w - 1))

RECURSIVE ValueOf(_)
\* The natural number of a sequence of at most 30 bits.
ValueOf(bits) ==
  IF Len(bits) = 0 THEN 0
  ELSE IF Len(bits) = 1 THEN bits[1]
  ELSE LET m == Len(bits) \div 2 IN
       ValueOf(SubSeq(bits, 1, m)) * 2^(Len(bits) - m)
         + ValueOf(SubSeq(bits, m + 1, Len(bits)))

\* The exact product of a 53-bit significand and a small integer k, as
\* bits without leading zeros, computed in three limbs.
MulBits(mant, k) ==
  LET lo == ValueOf(SubSeq(mant, SignificandBits - LimbBits + 1, SignificandBits))
      mid == ValueOf(SubSeq(mant, SignificandBits - 2 * LimbBits + 1,
                            SignificandBits - LimbBits))
      hi == ValueOf(SubSeq(mant, 1, SignificandBits - 2 * LimbBits))
      pl == lo * k
      pm == mid * k + pl \div 2^LimbBits
      ph == hi * k + pm \div 2^LimbBits
  IN BitsOf(ph, BitLength(ph)) \o BitsOf(pm % 2^LimbBits, LimbBits)
       \o BitsOf(pl % 2^LimbBits, LimbBits)

\* The double x * k for a small integer k > 0.
DoubleTimes(x, k) ==
  IF IsZero(x) THEN x
  ELSE LET p == MulBits(x.mant, k)
           len == Len(p)
           kept == SubSeq(p, 1, SignificandBits)
           guard == IF len > SignificandBits THEN p[SignificandBits + 1] ELSE 0
           sticky == \E j \in (SignificandBits + 2)..len : p[j] = 1
           up == guard = 1 /\ (sticky \/ kept[SignificandBits] = 1)
       IN Rounded(kept, x.exp + (len - SignificandBits), up)

\* Math.round(x) for a double 0 <= x < 2^30: the nearest integer, a tie
\* going up.
MathRound(x) ==
  LET n == SignificandBits + x.exp IN
  IF IsZero(x) \/ n < 0 THEN 0
  ELSE ValueOf(SubSeq(x.mant, 1, n))
         + (IF n < SignificandBits THEN x.mant[n + 1] ELSE 0)

\* calcHitRate of getCacheStats.
calcHitRate(hits, misses) ==
  LET total == hits + misses IN
  IF total = 0 THEN "0%"
  ELSE ToString(MathRound(DoubleTimes(DoubleDiv(hits, total), 100))) \o "%"

\* getCacheStats: the counters, the size and the hit rate of each tier, and
\* the size of the registry.
getCacheStats ==
  [lookup |-> [hits |-> stats.lookup.hits, misses |-> stats.lookup.misses,
               size |-> LRUSize(lookupCache),
               hitRate |-> calcHitRate(stats.lookup.hits, stats.lookup.misses)],
   content |-> [hits |-> stats.content.hits, misses |-> stats.content.misses,
                size |-> LRUSize(contentCache),
                hitRate |-> calcHitRate(stats.content.hits, stats.content.misses)],
   article |-> [hits |-> stats.article.hits, misses |-> stats.article.misses,
                size |-> LRUSize(articleCache),
                hitRate |-> calcHitRate(stats.article.hits, stats.article.misses)],
   inflight |-> [active |-> Cardinality(inflightRequests)]]

Next ==
  \/ \E lawId \in LawIds, loc \in Locators : CallGetLawData(lawId, loc)
  \/ \E f \in 1..MaxRequests, rev \in Revisions :
       SettleFetch(f, [ok |-> TRUE, value |-> LawData(fetches[f].lawId, rev)])
  \/ \E f \in 1..MaxRequests, e \in FetchErrors :
       SettleFetch(f, [ok |-> FALSE, value |-> Error(e)])
  \/ Resume
  \/ resetCacheStats
  \/ clearAllCaches
  \/ \E d \in Deltas : Tick(d)

Spec == Init /\ [][Next]_vars


\* ------------------------------------------------------------------------
\* TierSpec: the get / set / clear / reset functions of one tier, called in
\* any order on a tier that starts empty or one entry short of full, with
\* the clock moving in between.  The three tiers do not interact, so one
\* tier (focus) is exercised per behaviour.
\* ------------------------------------------------------------------------

MaxOps == 3

\* The TTL and the maximum entry count documented for each tier: 6 hours,
\* 45 minutes and 10 minutes; 200, 20 and 200 entries.  The clock is moved by
\* these periods, and the properties are stated in them.
StatedTTL(tier) ==
  CASE tier = "lookup" -> 6 * 60 * 60 * 1000
    [] tier = "content" -> 45 * 60 * 1000
    [] tier = "article" -> 10 * 60 * 1000

StatedMax(tier) ==
  CASE tier = "lookup" -> 200
    [] tier = "content" -> 20
    [] tier = "article" -> 200

\* The keys used are numbered; the calls use the oldest key of a filled tier
\* and two keys a filled tier does not hold.
ProbeKeys(tier) == {1, TierMax(tier), TierMax(tier) + 1}

\* Key number i as the tier's functions take it: a law name, a law id, or
\* the key built from a law id and an article number.
TierKey(tier, i) ==
  CASE tier = "lookup" -> "law" \o ToString(i)
    [] tier = "content" -> "id" \o ToString(i)
    [] tier = "article" -> buildArticleKey("id", ToString(i), Undefined, Undefined)

Values == {"v1"}

\* The tier after n sets of the keys 1..n, all made at time t.
Filled(tier, n, t) ==
  [i \in 1..n |-> [key |-> TierKey(tier, i), value |-> "v0", start |-> t]]

CacheOf(tier) ==
  CASE tier = "lookup" -> lookupCache
    [] tier = "content" -> contentCache
    [] tier = "article" -> articleCache

\* The focus tier becomes cache, the other tiers stay.
SetFocusCache(cache) ==
  /\ lookupCache' = IF focus = "lookup" THEN cache ELSE lookupCache
  /\ contentCache' = IF focus = "content" THEN cache ELSE contentCache
  /\ articleCache' = IF focus = "article" THEN cache ELSE articleCache

Unwritten == [live |-> FALSE, value |-> "", at |-> 0]

\* The order of last use without the keys in gone, and after key k was used.
Without(order, gone) == SelectSeq(order, LAMBDA x : x \notin gone)

Used(order, k) == SelectSeq(order, LAMBDA x : x # k) \o <<k>>

TierInit ==
  /\ now = 1
  /\ ticks = 0
  /\ stats = ZeroStats
  /\ focus \in Tiers
  /\ \E n \in {0, TierMax(focus) - 1} :
       /\ lookupCache = IF focus = "lookup" THEN Filled(focus, n, now) ELSE << >>
       /\ contentCache = IF focus = "content" THEN Filled(focus, n, now) ELSE << >>
       /\ articleCache = IF focus = "article" THEN Filled(focus, n, now) ELSE << >>
       /\ written = [i \in ProbeKeys(focus) |->
                       IF i <= n THEN [live |-> TRUE, value |-> "v0", at |-> now]
                       ELSE Unwritten]
       /\ recency = [i \in 1..n |-> TierKey(focus, i)]
  /\ ops = 0
  /\ last = [op |-> "none"]
  /\ gets = 0
  /\ inflightRequests = {}
  /\ fetches = << >>
  /\ requests = << >>
  /\ microtasks = << >>
  /\ draining = FALSE

\* getLookupCache / getContentCache / getArticleCache on key number i.
CallGet(i) ==
  LET k == TierKey(focus, i)
      g == TierGet(focus, CacheOf(focus), stats, k, now)
  IN
  /\ ops < MaxOps
  /\ ops' = ops + 1
  /\ SetFocusCache(g.cache)
  /\ stats' = g.stats
  /\ last' = [op |-> "get", i |-> i, result |-> g.value,
              hits |-> g.stats[focus].hits - stats[focus].hits,
              misses |-> g.stats[focus].misses - stats[focus].misses]
  /\ recency' = IF g.value.present THEN Used(recency, k)
                ELSE Without(recency, {k})
  /\ gets' = gets + 1
  /\ UNCHANGED <<now, ticks, focus, written>>
  /\ UNCHANGED requestState

\* setLookupCache / setContentCache / setArticleCache on key number i.
CallSet(i, v) ==
  LET k == TierKey(focus, i)
      before == CacheOf(focus)
      after == TierSet(focus, before, k, v, now)
      evicted == CacheKeys(before) \ CacheKeys(after)
  IN
  /\ ops < MaxOps
  /\ ops' = ops + 1
  /\ SetFocusCache(after)
  /\ last' = [op |-> "set", i |-> i, value |-> v,
              existed |-> k \in CacheKeys(before),
              sizeBefore |-> Len(before),
              sizeAfter |-> Len(after),
              evicted |-> evicted,
              oldest |-> IF recency = << >> THEN {} ELSE {Head(recency)}]
  /\ written' = [j \in ProbeKeys(focus) |->
                   IF j = i THEN [live |-> TRUE, value |-> v, at |-> now]
                   ELSE IF TierKey(focus, j) \in evicted
                        THEN Unwritten
                        ELSE written[j]]
  /\ recency' = Used(Without(recency, evicted), k)
  /\ UNCHANGED <<now, ticks, stats, focus, gets>>
  /\ UNCHANGED requestState

CallClearAllCaches ==
  /\ ops < MaxOps
  /\ ops' = ops + 1
  /\ lookupCache' = LRUClear(lookupCache)
  /\ contentCache' = LRUClear(contentCache)
  /\ articleCache' = LRUClear(articleCache)
  /\ stats' = ZeroStats
  /\ last' = [op |-> "clear"]
  /\ written' = [j \in ProbeKeys(focus) |-> Unwritten]
  /\ recency' = << >>
  /\ gets' = 0
  /\ UNCHANGED <<now, ticks, focus>>
  /\ UNCHANGED requestState

\* resetCacheStats, called between the calls on the tier.
CallResetCacheStats ==
  /\ ops < MaxOps
  /\ ops' = ops + 1
  /\ SetTiersAndStats(Reset(TiersAndStats))
  /\ last' = [op |-> "reset", counted |-> gets]
  /\ gets' = 0
  /\ UNCHANGED <<now, ticks, focus, written, recency>>
  /\ UNCHANGED requestState

\* Time passes: the tier's documented TTL exactly, or one millisecond more.
Pass(d) ==
  /\ ticks < MaxTicks
  /\ ticks' = ticks + 1
  /\ now' = now + d
  /\ TiersAt(now + d)
  /\ last' = [op |-> "pass"]
  /\ UNCHANGED <<stats, focus, ops, written, recency, gets>>
  /\ UNCHANGED requestState

TierNext ==
  \/ \E i \in ProbeKeys(focus) : CallGet(i)
  \/ \E i \in ProbeKeys(focus), v \in Values : CallSet(i, v)
  \/ CallClearAllCaches
  \/ CallResetCacheStats
  \/ \E d \in {StatedTTL(focus), StatedTTL(focus) + 1} : Pass(d)

TierSpec == TierInit /\ [][TierNext]_vars

\* ------------------------------------------------------------------------
\* Properties of the request path (Spec)
\* ------------------------------------------------------------------------

Calls == 1..Len(requests)

\* Call r is on the path through the coordinator (Content tier miss).
Coordinated(r) == requests[r].pc # "gone" /\ requests[r].path \in {"fetch", "join"}

Returned(r) == requests[r].pc = "done"

\* In this step call r is made / call r resumes after its await / fetch f settles.
IsCalled(r) == r = Len(requests) + 1 /\ Len(requests') = r

IsResumed(r) == r \in Calls /\ requests[r].pc = "await" /\ requests'[r].pc = "done"

IsSettled(f) ==
  f \in 1..Len(fetches) /\ fetches[f].status = "pending" /\ fetches'[f].status # "pending"

\* C1: calls for a key that reach the coordinator while a fetch for the key is
\* unresolved invoke no fetcher and share that fetch's promise, a fetch has
\* one invoking call, and all calls sharing a promise observe the one outcome
\* of its fetch, success value or failure.
C1_SingleFlight ==
  /\ \A r \in Calls : Coordinated(r) =>
       /\ requests[r].call.pendingAtCall # 0 =>
            /\ requests[r].path = "join"
            /\ requests[r].promise = requests[r].call.pendingAtCall
       /\ requests[r].call.pendingAtCall = 0 => requests[r].path = "fetch"
       /\ Returned(r) =>
            /\ fetches[requests[r].promise].status # "pending"
            /\ requests[r].observed.value.ok
                 = (fetches[requests[r].promise].status = "fulfilled")
            /\ requests[r].observed.value.value = fetches[requests[r].promise].value
  /\ \A r1, r2 \in Calls :
       Coordinated(r1) /\ Coordinated(r2) /\ requests[r1].promise = requests[r2].promise =>
         /\ (requests[r1].path = "fetch" /\ requests[r2].path = "fetch") => r1 = r2
         /\ (Returned(r1) /\ Returned(r2)) => requests[r1].observed = requests[r2].observed

\* Two calls that shared one fetch have both returned its value.
C1_Witness ==
  \E r1, r2 \in Calls :
    /\ Returned(r1) /\ Returned(r2) /\ Coordinated(r1) /\ Coordinated(r2)
    /\ requests[r1].path = "fetch" /\ requests[r2].path = "join"
    /\ requests[r1].promise = requests[r2].promise
    /\ requests[r1].observed.value.ok
    /\ requests[r1].call.articleNum # requests[r2].call.articleNum

\* C2: at most one upstream fetch per law id is unresolved, and all calls
\* waiting for the document of a law id wait for that one fetch.
C2_OneFetchPerLaw ==
  /\ \A f1, f2 \in PendingFetches : fetches[f1].lawId = fetches[f2].lawId => f1 = f2
  /\ \A r1, r2 \in Calls :
       /\ requests[r1].pc = "await" /\ requests[r2].pc = "await"
       /\ Coordinated(r1) /\ Coordinated(r2)
       /\ requests[r1].call.lawId = requests[r2].call.lawId
       => requests[r1].promise = requests[r2].promise

\* Two sub-document requests for one law wait while one fetch is unresolved.
C2_Witness ==
  \E r1, r2 \in Calls :
    /\ r1 # r2
    /\ requests[r1].pc = "await" /\ requests[r2].pc = "await"
    /\ Truthy(requests[r1].call.articleNum) /\ Truthy(requests[r2].call.articleNum)
    /\ requests[r1].call.lawId = requests[r2].call.lawId
    /\ Cardinality(PendingFetches) = 1

\* C3: the registry binds exactly the keys of the unresolved fetches, each to
\* the promise of its fetch, and inflight.active is the number of unresolved
\* fetches.
C3_RegistryIsPending ==
  /\ inflightRequests = {[key |-> fetches[f].key, promise |-> f] : f \in PendingFetches}
  /\ getCacheStats.inflight.active = Cardinality(PendingFetches)

\* One fetch has failed, one has succeeded, and the registry is empty again.
C3_Witness ==
  /\ \E f \in 1..Len(fetches) : fetches[f].status = "rejected"
  /\ \E f \in 1..Len(fetches) : fetches[f].status = "fulfilled"
  /\ getCacheStats.inflight.active = 0

\* C4: when a fetch fails, the step stores nothing in the Content tier,
\* removes the key from the registry and starts no fetch; every waiter
\* returns that failure and stores nothing; and a call for a law id whose
\* fetch has failed, with nothing cached and no fetch unresolved, invokes its
\* fetcher.
C4_Failure ==
  [][ /\ \A f \in 1..Len(fetches) :
           (IsSettled(f) /\ fetches'[f].status = "rejected") =>
             /\ contentCache' = contentCache
             /\ ~MapHas(inflightRequests', fetches[f].key)
             /\ PendingFetches' = PendingFetches \ {f}
             /\ Len(fetches') = Len(fetches)
      /\ \A r \in Calls :
           (IsResumed(r) /\ Coordinated(r)
              /\ fetches[requests[r].promise].status = "rejected") =>
             /\ requests'[r].result =
                  Some([ok |-> FALSE, value |-> fetches[requests[r].promise].value])
             /\ contentCache' = contentCache
             /\ articleCache' = articleCache
             /\ fetches' = fetches
      /\ \A r \in 1..MaxRequests :
           (/\ IsCalled(r)
            /\ requests'[r].path # "article"
            /\ \E f \in 1..Len(fetches) :
                 /\ fetches[f].lawId = requests'[r].call.lawId
                 /\ fetches[f].status = "rejected"
            /\ PendingFor(requests'[r].call.lawId) = 0
            /\ IndexOf(contentCache, requests'[r].call.lawId) = 0) =>
             /\ Len(fetches') = Len(fetches) + 1
             /\ fetches'[Len(fetches')].status = "pending"
             /\ fetches'[Len(fetches')].lawId = requests'[r].call.lawId
             /\ requests'[r].promise = Len(fetches')
    ]_vars

\* A fetch for a law id has failed and a later fetch for it is unresolved.
C4_Witness ==
  \E f1, f2 \in 1..Len(fetches) :
    /\ f1 < f2
    /\ fetches[f1].lawId = fetches[f2].lawId
    /\ fetches[f1].status = "rejected"
    /\ fetches[f2].status = "pending"
    /\ contentCache = << >>

\* C5: a call never receives the promise of a settled fetch: the promise it
\* waits for is that of a fetch unresolved before the call, or of the fetch
\* the call itself starts; and the step that settles a fetch removes its key.
C5_NoReuse ==
  [][ /\ \A r \in 1..MaxRequests :
           (IsCalled(r) /\ requests'[r].promise # 0) =>
             \/ /\ requests'[r].promise \in PendingFetches
                /\ Len(fetches') = Len(fetches)
             \/ /\ requests'[r].promise = Len(fetches) + 1
                /\ Len(fetches') = Len(fetches) + 1
                /\ fetches'[Len(fetches')].status = "pending"
      /\ \A f \in 1..Len(fetches) :
           IsSettled(f) => ~MapHas(inflightRequests', fetches[f].key)
    ]_vars

\* After a successful fetch for a law id has settled, a later call for it
\* (the entry having expired or been cleared) has its own fetch.
C5_Witness ==
  \E f1, f2 \in 1..Len(fetches) : \E r \in Calls :
    /\ f1 < f2
    /\ fetches[f1].lawId = fetches[f2].lawId
    /\ fetches[f1].status = "fulfilled"
    /\ requests[r].pc = "await" /\ requests[r].path = "fetch"
    /\ requests[r].promise = f2

\* The Content tier holds an entry for the law id that has not expired.
ContentLive(lawId) ==
  \E i \in 1..Len(contentCache) :
    contentCache[i].key = lawId /\ now - contentCache[i].start <= ContentTTL

ContentValue(lawId) ==
  (CHOOSE e \in {contentCache[i] : i \in 1..Len(contentCache)} : e.key = lawId).value

\* C6: a call that gets past the Article tier with a live Content entry for
\* its id gets that entry's value and no fetcher is invoked; with no live
\* entry it waits for the promise registered under "content:" + id; and when
\* a call resumes with fetched data, the Content tier holds that data under id.
C6_GetOrFetch ==
  [][ /\ \A r \in 1..MaxRequests :
           (IsCalled(r) /\ requests'[r].path # "article") =>
             IF ContentLive(requests'[r].call.lawId)
             THEN /\ fetches' = RetiredFetches
                  /\ requests'[r].promise = 0
                  /\ microtasks' = Append(microtasks,
                       [req |-> r,
                        settled |-> [ok |-> TRUE,
                                     value |-> ContentValue(requests'[r].call.lawId)]])
             ELSE /\ requests'[r].promise # 0
                  /\ [key |-> "content:" \o requests'[r].call.lawId,
                      promise |-> requests'[r].promise] \in inflightRequests'
                  /\ fetches'[requests'[r].promise].status = "pending"
                  /\ fetches'[requests'[r].promise].lawId = requests'[r].call.lawId
      /\ \A r \in Calls :
           (IsResumed(r) /\ Coordinated(r) /\ requests'[r].observed.value.ok) =>
             /\ IndexOf(contentCache, requests[r].call.lawId) # 0
             /\ ContentValue(requests[r].call.lawId) = requests'[r].observed.value.value
    ]_vars

\* A call has been answered from the Content tier, which a fetch filled.
C6_Witness ==
  \E r \in Calls :
    /\ requests[r].pc = "done" /\ requests[r].path = "content"
    /\ \E f \in 1..Len(fetches) : fetches[f].status = "fulfilled"

\* C7: a call without an article number leaves the Article tier and its
\* counters as they are, when it is made and when it resumes, and returns
\* the summary of the document.
C7_SummaryBypassesArticleTier ==
  [][ /\ \A r \in 1..MaxRequests :
           (IsCalled(r) /\ ~Truthy(requests'[r].call.articleNum)) =>
             /\ articleCache' = articleCache
             /\ stats'.article = stats.article
      /\ \A r \in Calls :
           (IsResumed(r) /\ ~Truthy(requests[r].call.articleNum)) =>
             /\ articleCache' = articleCache
             /\ stats'.article = stats.article
             /\ requests'[r].observed.value.ok =>
                  requests'[r].result =
                    Some([ok |-> TRUE,
                          value |-> Summary(requests'[r].observed.value.value)])
    ]_vars

\* A request with a paragraph number and no article number has returned its
\* summary while the Article tier holds an entry.
C7_Witness ==
  \E r \in Calls :
    /\ Returned(r)
    /\ ~Truthy(requests[r].call.articleNum)
    /\ Truthy(requests[r].call.paragraphNum)
    /\ requests[r].result.value.ok
    /\ articleCache # << >>

\* ------------------------------------------------------------------------
\* Properties of one tier (TierSpec)
\* ------------------------------------------------------------------------

\* C8: a get of a key whose last set is still in force (no later set, clear
\* or capacity eviction of the key) returns the value set as long as no more
\* than the tier's TTL has passed since the set, and returns absent and
\* counts one miss, no hit, once more than the TTL has passed.
C8_GetWithinTTL ==
  (last.op = "get" /\ written[last.i].live) =>
    IF now - written[last.i].at <= StatedTTL(focus)
    THEN last.result = Some(written[last.i].value)
    ELSE last.result = None /\ last.misses = 1 /\ last.hits = 0

\* A key set before the TTL passed has been looked up after it.
C8_Witness ==
  /\ last.op = "get"
  /\ written[last.i].live
  /\ written[last.i].value = "v1"
  /\ now - written[last.i].at > StatedTTL(focus)
  /\ last.result = None

\* C9: a set of a new key into a tier holding its maximum number of entries
\* evicts exactly one entry, the one whose last set or successful get is the
\* oldest, and leaves the tier at its maximum.
C9_EvictsLeastRecentlyUsed ==
  (last.op = "set" /\ ~last.existed /\ last.sizeBefore = StatedMax(focus)) =>
    /\ Cardinality(last.evicted) = 1
    /\ last.evicted = last.oldest
    /\ last.sizeAfter = StatedMax(focus)

\* The oldest key was read, the tier was filled, and the next new key evicted
\* the second oldest key instead.
C9_Witness ==
  /\ last.op = "set" /\ ~last.existed
  /\ last.sizeBefore = StatedMax(focus)
  /\ last.evicted = {TierKey(focus, 2)}
  /\ TierKey(focus, 1) \in CacheKeys(CacheOf(focus))

\* C10: no tier ever holds more entries than its maximum, and a set of a key
\* the tier holds replaces the value and leaves the size as it was.
C10_SizeWithinMax ==
  /\ Len(lookupCache) <= 200
  /\ Len(contentCache) <= 20
  /\ Len(articleCache) <= 200
  /\ (last.op = "set" /\ last.existed) =>
       /\ last.sizeAfter = last.sizeBefore
       /\ \E j \in 1..Len(CacheOf(focus)) :
            /\ CacheOf(focus)[j].key = TierKey(focus, last.i)
            /\ CacheOf(focus)[j].value = last.value

\* A key of a full tier has been set again.
C10_Witness ==
  /\ last.op = "set" /\ last.existed
  /\ last.sizeBefore = StatedMax(focus)
  /\ last.value # "v0"

\* The entry the Content tier holds for the law id, as a list of zero or one.
ContentEntry(cache, lawId) ==
  SelectSeq(cache, LAMBDA e : e.key = lawId)

\* C11: in no step is a live Content entry replaced: an entry that has not
\* expired is, after the step, either still the same entry (same tree, same
\* time of writing) or no longer held (cleared or evicted).
C11_LiveEntryNotReplaced ==
  [][ \A lawId \in LawIds :
        ContentLive(lawId) =>
          \/ ContentEntry(contentCache', lawId) = << >>
          \/ ContentEntry(contentCache', lawId) = ContentEntry(contentCache, lawId)
    ]_vars

\* An entry was written for a law id a second time, after the first entry
\* had expired or been cleared, and is live.
C11_Witness ==
  \E f1, f2 \in 1..Len(fetches) :
    /\ f1 < f2
    /\ fetches[f1].lawId = fetches[f2].lawId
    /\ fetches[f1].status = "fulfilled" /\ fetches[f2].status = "fulfilled"
    /\ ContentLive(fetches[f2].lawId)
    /\ ContentEntry(contentCache, fetches[f2].lawId)[1].start > 1

\* C12: the hits and misses of the tier add up to the number of gets made
\* on it since the counters were last zeroed (by resetCacheStats or
\* clearAllCaches), so that no set, clear or passing of time counts; the
\* tiers not called keep their counters; and a get counts one hit and no
\* miss if it returns a value, one miss and no hit if it returns absent,
\* which it does for a key not held and for an expired one.
C12_CountersCountGets ==
  /\ stats[focus].hits + stats[focus].misses = gets
  /\ \A tier \in Tiers \ {focus} : stats[tier] = [hits |-> 0, misses |-> 0]
  /\ last.op = "get" =>
       /\ last.result.present => (last.hits = 1 /\ last.misses = 0)
       /\ ~last.result.present => (last.hits = 0 /\ last.misses = 1)
       /\ (\/ ~written[last.i].live
           \/ now - written[last.i].at > StatedTTL(focus)) =>
            (last.hits = 0 /\ last.misses = 1)

\* Two gets and one other call have been made; the first get was a hit, the
\* second, of an expired key, a miss.
C12_Witness ==
  /\ last.op = "get"
  /\ gets = 2 /\ ops > 2
  /\ stats[focus].hits = 1 /\ stats[focus].misses = 1
  /\ written[last.i].live
  /\ now - written[last.i].at > StatedTTL(focus)

\* ------------------------------------------------------------------------
\* KeySpec: buildArticleKey applied to one locator after another.  The tool
\* arguments are strings the client chooses; the handler checks only that
\* lawId is not empty.
\* ------------------------------------------------------------------------

KeyArticles == {"1", "12", "1#P:2"}

KeyParagraphs == {Undefined, "2", "2#I:3"}

KeyItems == {Undefined, "3"}

\* getArticleCache / setArticleCache build the key of a locator; the call
\* before it is remembered.
CallBuildArticleKey(lawId, articleNum, paragraphNum, itemNum) ==
  /\ last' = [op |-> "buildArticleKey",
              locator |-> <<lawId, articleNum, paragraphNum, itemNum>>,
              key |-> buildArticleKey(lawId, articleNum, paragraphNum, itemNum),
              prev |-> IF last.op = "buildArticleKey"
                       THEN [op |-> last.op, locator |-> last.locator, key |-> last.key]
                       ELSE [op |-> "none"]]
  /\ UNCHANGED <<now, ticks, lookupCache, contentCache, articleCache, stats,
                 focus, ops, written, recency, gets>>
  /\ UNCHANGED requestState

KeyNext ==
  \E lawId \in LawIds, articleNum \in KeyArticles,
     paragraphNum \in KeyParagraphs, itemNum \in KeyItems :
    CallBuildArticleKey(lawId, articleNum, paragraphNum, itemNum)

KeySpec == Init /\ [][KeyNext]_vars

\* C13: the key of a locator is id#A:article, then #P:paragraph if a
\* paragraph is given, then #I:item if an item is given; and two locators
\* that differ have different keys.
C13_KeysDistinct ==
  /\ (last.op = "buildArticleKey"
        /\ last.locator = <<"340AC0000000034", "12", "2", "3">>) =>
       last.key = "340AC0000000034#A:12#P:2#I:3"
  /\ (last.op = "buildArticleKey"
        /\ last.locator = <<"340AC0000000034", "12", Undefined, "3">>) =>
       last.key = "340AC0000000034#A:12#I:3"
  /\ (last.op = "buildArticleKey"
        /\ last.locator = <<"340AC0000000034", "12", Undefined, Undefined>>) =>
       last.key = "340AC0000000034#A:12"
  /\ (last.op = "buildArticleKey" /\ last.prev.op = "buildArticleKey"
        /\ last.locator # last.prev.locator) =>
       last.key # last.prev.key

\* ------------------------------------------------------------------------
\* StatsSpec: gets on one tier that holds one key, and getCacheStats.
\* ------------------------------------------------------------------------

MaxGets == 40

StatsInit ==
  /\ now = 1
  /\ ticks = 0
  /\ stats = ZeroStats
  /\ focus \in Tiers
  /\ lookupCache = IF focus = "lookup" THEN Filled(focus, 1, now) ELSE << >>
  /\ contentCache = IF focus = "content" THEN Filled(focus, 1, now) ELSE << >>
  /\ articleCache = IF focus = "article" THEN Filled(focus, 1, now) ELSE << >>
  /\ written = << >>
  /\ recency = <<TierKey(focus, 1)>>
  /\ ops = 0
  /\ gets = 0
  /\ last = [op |-> "none"]
  /\ inflightRequests = {}
  /\ fetches = << >>
  /\ requests = << >>
  /\ microtasks = << >>
  /\ draining = FALSE

\* getLookupCache / getContentCache / getArticleCache on key number i: the
\* key held (a hit) or a key not held (a miss).
StatsGet(i) ==
  LET g == TierGet(focus, CacheOf(focus), stats, TierKey(focus, i), now) IN
  /\ gets < MaxGets
  /\ gets' = gets + 1
  /\ SetFocusCache(g.cache)
  /\ stats' = g.stats
  /\ last' = [op |-> "get", i |-> i, result |-> g.value]
  /\ UNCHANGED <<now, ticks, focus, ops, written, recency>>
  /\ UNCHANGED requestState

\* getCacheStats; its result is kept.
CallGetCacheStats ==
  /\ last' = [op |-> "getCacheStats", result |-> getCacheStats]
  /\ UNCHANGED <<now, ticks, lookupCache, contentCache, articleCache, stats,
                 focus, ops, written, recency, gets>>
  /\ UNCHANGED requestState

StatsNext ==
  \/ \E i \in {1, 2} : StatsGet(i)
  \/ CallGetCacheStats

StatsSpec == StatsInit /\ [][StatsNext]_vars

\* 100 * h / t rounded to the nearest integer, a half going up, for t > 0.
RoundedPercent(h, t) == (200 * h + t) \div (2 * t)

\* C14: the hit rate getCacheStats reports for a tier with H hits and M
\* misses is "0%" when H = M = 0 and otherwise 100 * H / (H + M) rounded to
\* the nearest integer, followed by "%".
C14_HitRateRounded ==
  last.op = "getCacheStats" =>
    \A tier \in Tiers :
      LET s == last.result[tier] IN
      s.hitRate = IF s.hits + s.misses = 0 THEN "0%"
                  ELSE ToString(RoundedPercent(s.hits, s.hits + s.misses)) \o "%"

\* C15: a step that is a resetCacheStats leaves all six counters at zero and
\* every tier as it was: the same entries with the same values and times of
\* writing, in the same order of use; the registry is as it was.
C15_ResetZeroesCountersOnly ==
  [][ (last'.op = "reset" /\ ops' = ops + 1) =>
        /\ stats' = ZeroStats
        /\ lookupCache' = lookupCache
        /\ contentCache' = contentCache
        /\ articleCache' = articleCache
        /\ inflightRequests' = inflightRequests
    ]_vars

\* Counters that had counted two gets, the later one a hit on the oldest
\* key, have been reset while the tier held entries.
C15_Witness ==
  /\ last.op = "reset"
  /\ last.counted = 2
  /\ stats = ZeroStats
  /\ Len(CacheOf(focus)) = StatedMax(focus) - 1
  /\ recency[Len(recency)] = TierKey(focus, 1)

\* A get of any key on any tier would return absent now: no tier holds an
\* entry that LRUCache.get returns.
GetsAbsent ==
  \A tier \in Tiers :
    \A i \in 1..Len(CacheOf(tier)) :
      ~LRUGet(CacheOf(tier), TierTTL(tier), CacheOf(tier)[i].key, now).value.present

\* getCacheStats reports no hit, no miss and no entry for any tier.
StatsAllZero ==
  \A tier \in Tiers :
    /\ getCacheStats[tier].hits = 0
    /\ getCacheStats[tier].misses = 0
    /\ getCacheStats[tier].size = 0

\* In this step clearAllCaches is called, the call before it being a request.
IsCleared == last.op # "clearAllCaches" /\ last'.op = "clearAllCaches"

\* In this step a request made earlier stores something: its fetch settles
\* with data, or it resumes and stores the article it extracted.
StoresInStep ==
  \/ \E f \in 1..Len(fetches) : IsSettled(f) /\ fetches'[f].status = "fulfilled"
  \/ \E r \in Calls :
       /\ IsResumed(r)
       /\ Truthy(requests[r].call.articleNum)
       /\ requests'[r].observed.value.ok

\* C16 as stated: clearAllCaches leaves getCacheStats with zero hits, misses
\* and sizes, and as long as no request has been made since (requests being
\* the only callers of set), a get of any key on any tier returns absent.
C16_AbsentAfterClear ==
  [][ /\ IsCleared => StatsAllZero'
      /\ last'.op = "clearAllCaches" => GetsAbsent'
    ]_vars

\* C16 amended: clearAllCaches leaves getCacheStats with zero hits, misses
\* and sizes and every get absent, and a get of any key on any tier keeps
\* returning absent through every step in which nothing is stored, be it by
\* a new request or by a request that was in flight at the clear.
C16_AbsentUntilStored ==
  [][ /\ IsCleared => (StatsAllZero' /\ GetsAbsent')
      /\ (last.op = "clearAllCaches" /\ last'.op = "clearAllCaches"
            /\ GetsAbsent /\ ~StoresInStep) => GetsAbsent'
    ]_vars

\* clearAllCaches was called while one law was cached and the fetch of
\* another was unresolved; that fetch has since failed, and the tiers are
\* still empty.
C16_Witness ==
  /\ last.op = "clearAllCaches"
  /\ \E f \in 1..Len(fetches) : fetches[f].status = "fulfilled"
  /\ \E f \in 1..Len(fetches) : fetches[f].status = "rejected"
  /\ PendingFetches = {}
  /\ contentCache = << >> /\ articleCache = << >>
  /\ StatsAllZero

\* ------------------------------------------------------------------------
\* ExtractSpec: extractArticle applied to one document and locator after
\* another.  The documents cover what the traversal has to cope with: a
\* missing full text, text leaves among the children, articles nested in
\* chapters, in supplementary provisions and in another article, articles
\* and paragraphs that repeat a number, titles and captions placed after
\* the paragraphs, paragraphs and items that are not direct children, and an
\* article without a children array, and an article that holds an article
\* of its own number.
\* ------------------------------------------------------------------------

NestedTree ==
  Elem("Law", NoAttr, <<
    Text("preamble"),
    Elem("Chapter", [Num |-> "1"], <<
      Elem("Article", [Num |-> "2"], <<
        Elem("Paragraph", [Num |-> "1"], <<
          Elem("ParagraphNum", NoAttr, << >>),
          Elem("ParagraphSentence", NoAttr, <<Text("first")>>),
          Elem("Item", [Num |-> "1"], <<Text("a")>>),
          Elem("TableStruct", NoAttr, <<
            Elem("Item", [Num |-> "3"], <<Text("nested")>>) >>),
          Elem("Item", [Num |-> "1"], <<Text("b")>>) >>),
        Elem("ArticleTitle", NoAttr, <<Text("late title")>>),
        Elem("Paragraph", [Num |-> "1"], <<
          Elem("ParagraphSentence", NoAttr, <<Text("second")>>) >>),
        Text("stray"),
        Elem("Paragraph", [Num |-> "2"], << >>),
        Elem("ArticleCaption", NoAttr, <<Text("late caption")>>),
        Elem("Article", [Num |-> "3"], <<
          Elem("Paragraph", [Num |-> "4"], <<
            Elem("Item", [Num |-> "3"], <<Text("deep")>>) >>) >>) >>) >>),
    Elem("SupplProvision", NoAttr, <<
      Elem("Article", [Num |-> "2"], <<
        Elem("Paragraph", [Num |-> "4"], <<Text("supplementary")>>) >>),
      Elem("Article", [Num |-> "1"], <<
        Elem("ArticleCaption", NoAttr, <<Text("wrapped")>>),
        Elem("Sub", NoAttr, <<
          Elem("Paragraph", [Num |-> "1"], << >>) >>) >>) >>) >>)

\* An article node that has no children property (and is the whole text).
BareArticle == [tag |-> "Article", attr |-> [Num |-> "3"]]

\* A law whose article 1 holds, below its first paragraph, another article 1,
\* and is followed by a third one.
SelfNestedTree ==
  Elem("Law", NoAttr, <<
    Elem("Chapter", [Num |-> "1"], <<
      Elem("Article", [Num |-> "1"], <<
        Elem("ArticleCaption", NoAttr, <<Text("outer")>>),
        Elem("Paragraph", [Num |-> "1"], <<
          Elem("Article", [Num |-> "1"], <<
            Elem("ArticleCaption", NoAttr, <<Text("inner")>>) >>) >>),
        Elem("Paragraph", [Num |-> "2"], <<Text("after")>>) >>) >>),
    Elem("Article", [Num |-> "1"], <<
      Elem("ArticleCaption", NoAttr, <<Text("later")>>) >>) >>)

\* The law_full_text values of the documents; the empty text stands for a
\* response without law_full_text.
ExtractTrees ==
  <<LawTree(1), NestedTree, BareArticle, Text(""), SelfNestedTree>>

ExtractDocument(d) ==
  [law_info |-> [law_id |-> "340AC0000000034"],
   revision_info |-> [law_revision_id |-> "doc_" \o ToString(d)],
   law_full_text |-> ExtractTrees[d]]

\* The article numbers asked for; "02" is 2 as a number and not as a string.
ExtractArticles == {"1", "2", "02", "3", "999"}

ExtractParagraphs == {Undefined, "1", "2", "4"}

ExtractItems == {Undefined, "1", "3"}

CallExtractArticle(d, articleNum, paragraphNum, itemNum) ==
  /\ last' = [op |-> "extractArticle",
              lawData |-> ExtractDocument(d),
              articleNum |-> articleNum,
              paragraphNum |-> paragraphNum,
              itemNum |-> itemNum,
              result |-> extractArticle(ExtractDocument(d), articleNum,
                                        paragraphNum, itemNum)]
  /\ UNCHANGED <<now, ticks, lookupCache, contentCache, articleCache, stats,
                 focus, ops, written, recency, gets>>
  /\ UNCHANGED requestState

ExtractNext ==
  \E d \in DOMAIN ExtractTrees, articleNum \in ExtractArticles,
     paragraphNum \in ExtractParagraphs, itemNum \in ExtractItems :
    CallExtractArticle(d, articleNum, paragraphNum, itemNum)

ExtractSpec == Init /\ [][ExtractNext]_vars

\* What a formula about extractArticle reads from the call just made.
Extracted == last.op = "extractArticle"

\* The Article nodes of the document just searched whose Num is the
\* requested article number, in document order.
MatchingArticles ==
  SelectSeq(collectArticles(last.lawData.law_full_text),
            LAMBDA n : Num(n) = last.articleNum)

\* C17: extractArticle on a document with no Article node whose Num equals
\* articleNum returns (it does not throw) a result that names the missing
\* article number in its error, carries the lawInfo and revisionInfo of the
\* document, and has no article field.
C17_ArticleNotFound ==
  (Extracted /\ MatchingArticles = << >>) =>
    /\ DOMAIN last.result = {"lawInfo", "revisionInfo", "error"}
    /\ last.result.error = "Article " \o last.articleNum \o " not found"
    /\ last.result.lawInfo = last.lawData.law_info
    /\ last.result.revisionInfo = last.lawData.revision_info

\* Article 999 was asked of the nested law, with a paragraph and an item,
\* and was reported missing.
C17_Witness ==
  /\ Extracted
  /\ last.lawData.law_full_text = NestedTree
  /\ last.articleNum = "999" /\ last.paragraphNum = "1" /\ last.itemNum = "1"
  /\ MatchingArticles = << >>
  /\ last.result.error = "Article 999 not found"

\* The article the call just made is about: the first Article node of the
\* document, in document order, with the requested number.
FoundArticle == MatchingArticles[1]

\* The positions, among the children of a node, of the nodes with the given
\* tag and number.
PlacesOf(node, tag, num) ==
  {i \in DOMAIN Children(node) :
     Tag(Children(node)[i]) = tag /\ Num(Children(node)[i]) = num}

\* The positions of the paragraphs with the requested number in the article.
ParagraphPlaces == PlacesOf(FoundArticle, "Paragraph", last.paragraphNum)

\* C18: extractArticle with a paragraphNum, when the found article has no
\* direct-child Paragraph whose Num equals paragraphNum, returns a not-found
\* result whose error names the article and the paragraph, and which has no
\* article field.
C18_ParagraphNotFound ==
  (/\ Extracted
   /\ MatchingArticles # << >>
   /\ last.paragraphNum # Undefined
   /\ ParagraphPlaces = {}) =>
    /\ "article" \notin DOMAIN last.result
    /\ "error" \in DOMAIN last.result
    /\ last.result.error = "Article " \o last.articleNum \o ", Paragraph "
                             \o last.paragraphNum \o " not found"

\* Paragraph 1 of article 1 of the supplementary provisions was asked for;
\* the article has such a paragraph only inside another child, and the
\* paragraph was reported missing.
C18_Witness ==
  /\ Extracted
  /\ last.lawData.law_full_text = NestedTree
  /\ last.articleNum = "1" /\ last.paragraphNum = "1"
  /\ MatchingArticles # << >>
  /\ ParagraphPlaces = {}
  /\ last.result.error = "Article 1, Paragraph 1 not found"

\* The paragraph the call just made is about: the first direct-child
\* Paragraph of the article with the requested number.
FoundParagraph ==
  Children(FoundArticle)[CHOOSE i \in ParagraphPlaces :
                           \A j \in ParagraphPlaces : i <= j]

\* The positions of the items with the requested number in the paragraph.
ItemPlaces == PlacesOf(FoundParagraph, "Item", last.itemNum)

\* C19: extractArticle with an itemNum, when the matching paragraph has no
\* direct-child Item whose Num equals itemNum, returns a not-found result
\* whose error names the article, the paragraph and the item, and which has
\* no article field.
C19_ItemNotFound ==
  (/\ Extracted
   /\ MatchingArticles # << >>
   /\ last.paragraphNum # Undefined
   /\ ParagraphPlaces # {}
   /\ last.itemNum # Undefined
   /\ ItemPlaces = {}) =>
    /\ "article" \notin DOMAIN last.result
    /\ "error" \in DOMAIN last.result
    /\ last.result.error = "Article " \o last.articleNum \o ", Paragraph "
                             \o last.paragraphNum \o ", Item "
                             \o last.itemNum \o " not found"

\* Item 3 of paragraph 1 of article 2 was asked for; the first paragraph 1
\* has an item 3 only inside a table, and the item was reported missing.
C19_Witness ==
  /\ Extracted
  /\ last.lawData.law_full_text = NestedTree
  /\ last.articleNum = "2" /\ last.paragraphNum = "1" /\ last.itemNum = "3"
  /\ ParagraphPlaces # {}
  /\ ItemPlaces = {}
  /\ last.result.error = "Article 2, Paragraph 1, Item 3 not found"

\* The positions of the title and caption children of the found article.
TitlePlaces ==
  {i \in DOMAIN Children(FoundArticle) :
     Tag(Children(FoundArticle)[i]) \in {"ArticleTitle", "ArticleCaption"}}

\* The elements of a sequence at the given positions, in their order.
Picked(seq, places) ==
  LET Pick[i \in 0..Len(seq)] ==
        IF i = 0 THEN << >>
        ELSE IF i \in places THEN Append(Pick[i - 1], seq[i]) ELSE Pick[i - 1]
  IN Pick[Len(seq)]

\* C20: extractArticle(tree, a, p) without an item, when article a has a
\* direct-child Paragraph with Num p, returns an article whose children are
\* the title and caption children of the original article in their original
\* relative order, followed by the matching paragraph as it is in the
\* document: nothing else is kept and exactly one Paragraph numbered p is
\* present.  The other fields of the article are those of the original.
C20_ParagraphOnly ==
  (/\ Extracted
   /\ MatchingArticles # << >>
   /\ last.paragraphNum # Undefined
   /\ ParagraphPlaces # {}
   /\ last.itemNum = Undefined) =>
    /\ "error" \notin DOMAIN last.result
    /\ "article" \in DOMAIN last.result
    /\ last.result.article.children =
         Append(Picked(Children(FoundArticle), TitlePlaces), FoundParagraph)
    /\ Cardinality(PlacesOf(last.result.article, "Paragraph",
                            last.paragraphNum)) = 1
    /\ last.result.article.tag = FoundArticle.tag
    /\ last.result.article.attr = FoundArticle.attr

\* Paragraph 1 of article 2 of the nested law was asked for: the article
\* has two paragraphs numbered 1, a title and a caption placed after the
\* first of them, a text leaf, another paragraph and a nested article; the
\* result keeps the title, the caption and the first paragraph 1.
C20_Witness ==
  /\ Extracted
  /\ last.lawData.law_full_text = NestedTree
  /\ last.articleNum = "2" /\ last.paragraphNum = "1"
  /\ last.itemNum = Undefined
  /\ Cardinality(ParagraphPlaces) = 2
  /\ Len(last.result.article.children) = 3
  /\ Tag(last.result.article.children[1]) = "ArticleTitle"
  /\ Tag(last.result.article.children[2]) = "ArticleCaption"
  /\ last.result.article.children[3] = FoundParagraph
  /\ Len(FoundParagraph.children) = 5

\* The positions of the paragraph-number marker and of the sentence among
\* the children of the found paragraph.
ContextPlaces ==
  {i \in DOMAIN Children(FoundParagraph) :
     Tag(Children(FoundParagraph)[i]) \in {"ParagraphNum", "ParagraphSentence"}}

\* The paragraph of a successful result narrowed to a paragraph: the last
\* child of the returned article.
ReturnedParagraph ==
  last.result.article.children[Len(last.result.article.children)]

\* The positions of the Item children of a node.
ItemsIn(node) ==
  {i \in DOMAIN Children(node) : Tag(Children(node)[i]) = "Item"}

\* C21: extractArticle(tree, a, p, i), when the item is found, returns the
\* paragraph reduced to its paragraph-number marker, its sentence and one
\* Item numbered i, in their original relative order: every other child of
\* the paragraph is dropped and exactly one Item is present.
C21_ItemOnly ==
  (/\ Extracted
   /\ MatchingArticles # << >>
   /\ last.paragraphNum # Undefined
   /\ ParagraphPlaces # {}
   /\ last.itemNum # Undefined
   /\ ItemPlaces # {}) =>
    /\ "article" \in DOMAIN last.result
    /\ \E i \in ItemPlaces :
         Children(ReturnedParagraph) =
           Picked(Children(FoundParagraph), ContextPlaces \cup {i})
    /\ Cardinality(ItemsIn(ReturnedParagraph)) = 1

\* The call just made returned an article, not an error.
Succeeded == Extracted /\ "article" \in DOMAIN last.result

\* The levels the returned article was narrowed to: a paragraph is looked
\* for only when a paragraph number is given, an item only inside the
\* paragraph found.
NarrowedToParagraph == last.paragraphNum # Undefined

NarrowedToItem == last.paragraphNum # Undefined /\ last.itemNum # Undefined

\* C22: the note of every successful extractArticle result states exactly
\* the levels that were narrowed, in article, paragraph, item order: a level
\* is named in the note if and only if the result was filtered to it.
C22_NoteNamesNarrowedLevels ==
  Succeeded =>
    last.result.note =
      ("Showing Article " \o last.articleNum)
        \o (IF NarrowedToParagraph
            THEN ", Paragraph " \o last.paragraphNum ELSE "")
        \o (IF NarrowedToItem THEN ", Item " \o last.itemNum ELSE "")

\* C23: a malformed locator does not fail.  extractArticle called with an
\* itemNum but no paragraphNum returns a successful result with the full,
\* unfiltered article; and an absent level shows everything at that level:
\* without a paragraphNum the article is returned whole, and with a
\* paragraph found and no itemNum the paragraph is returned whole.
C23_AbsentLevelShowsAll ==
  /\ (Extracted /\ MatchingArticles # << >> /\ last.paragraphNum = Undefined) =>
       /\ "error" \notin DOMAIN last.result
       /\ Succeeded
       /\ last.result.article = FoundArticle
  /\ (/\ Extracted /\ MatchingArticles # << >>
      /\ last.paragraphNum # Undefined /\ ParagraphPlaces # {}
      /\ last.itemNum = Undefined) =>
       /\ Succeeded
       /\ ReturnedParagraph = FoundParagraph

\* Item 3 of article 2 was asked for without a paragraph, and the whole
\* article 2 came back with its seven children.
C23_Witness ==
  /\ Succeeded
  /\ last.lawData.law_full_text = NestedTree
  /\ last.articleNum = "2"
  /\ last.paragraphNum = Undefined /\ last.itemNum = "3"
  /\ last.result.article = FoundArticle
  /\ Len(last.result.article.children) = 7

\* ------------------------------------------------------------------------
\* SummarySpec: extractArticlesSummary applied to one document after
\* another.  A document has the articles 1..n laid out in one of five
\* shapes, so that what the summary has to be is known from n and the shape.
\* ------------------------------------------------------------------------

\* The largest number of articles of a document: more than the 20 the
\* summary shows.
MaxArticles == 22

SummaryShapes == {"flat", "gaps", "parts", "chain", "odd"}

Title(children) == Elem("ArticleTitle", NoAttr, children)

Caption(children) == Elem("ArticleCaption", NoAttr, children)

\* The children article k starts with, by shape.
HeadOf(k, shape) ==
  LET num == ToString(k)
      body == Elem("Paragraph", [Num |-> "1"], <<
                Elem("ParagraphSentence", NoAttr, <<Text("s" \o num)>>) >>)
  IN CASE shape = "flat" ->
            <<Caption(<<Text("c" \o num)>>), Title(<<Text("t" \o num)>>), body>>
       [] shape = "gaps" ->
            (IF k % 2 = 1 THEN << >> ELSE <<Title(<<Text("t" \o num)>>)>>)
              \o <<body>>
              \o (IF k % 3 = 0 THEN << >> ELSE <<Caption(<<Text("c" \o num)>>)>>)
       [] shape = "parts" ->
            <<Title(<<Text("Art. "),
                      Elem("Ruby", NoAttr, <<Text(num),
                        Elem("Rt", NoAttr, <<Text("(r)")>>) >>),
                      Text(".")>>),
              body>>
       [] shape = "chain" -> <<Title(<<Text("t" \o num)>>)>>
       [] shape = "odd" ->
            <<Text("stray"),
              Title(<< >>),
              Title(<<Text("second")>>),
              Caption(<<Text("a"), Text(""), Elem("Sup", NoAttr, << >>), Text("b")>>),
              Caption(<<Text("later")>>)>>

\* Article k; in the shape with gaps every fourth article has no attr.Num.
ArticleOf(k, shape, rest) ==
  Elem("Article",
       IF shape = "gaps" /\ k % 4 = 0 THEN NoAttr ELSE [Num |-> ToString(k)],
       HeadOf(k, shape) \o rest)

\* Articles k..n, each the last child of the one before.
RECURSIVE Chain(_, _)
Chain(k, n) ==
  IF k > n THEN << >>
  ELSE <<ArticleOf(k, "chain", Chain(k + 1, n))>>

\* The law_full_text with the articles 1..n in the given shape.
SummaryTree(n, shape) ==
  LET Row(from, to) ==
        [i \in 1..(to - from + 1) |-> ArticleOf(from + i - 1, shape, << >>)]
      half == n \div 2
  IN CASE shape = "chain" ->
            Elem("Law", NoAttr, <<Elem("LawBody", NoAttr, Chain(1, n))>>)
       [] shape = "parts" ->
            Elem("Law", NoAttr, <<
              Text("contents"),
              Elem("MainProvision", NoAttr, <<
                Elem("Chapter", [Num |-> "1"], Row(1, half)) >>),
              Text("between"),
              Elem("SupplProvision", NoAttr, Row(half + 1, n)) >>)
       [] OTHER ->
            Elem("Law", NoAttr, <<Elem("LawBody", NoAttr, Row(1, n))>>)

\* getLawData without an article number builds the summary of the document.
CallExtractArticlesSummary(n, shape) ==
  /\ last' = [op |-> "extractArticlesSummary",
              n |-> n,
              shape |-> shape,
              result |-> extractArticlesSummary(SummaryTree(n, shape))]
  /\ UNCHANGED <<now, ticks, lookupCache, contentCache, articleCache, stats,
                 focus, ops, written, recency, gets>>
  /\ UNCHANGED requestState

SummaryNext ==
  \E n \in 0..MaxArticles, shape \in SummaryShapes :
    CallExtractArticlesSummary(n, shape)

SummarySpec == Init /\ [][SummaryNext]_vars

\* What the summary has to say of article k of a document of the given
\* shape: its number, and the text of its first title and caption child.
ExpectedEntry(k, shape) ==
  LET num == ToString(k) IN
  [articleNum |-> IF shape = "gaps" /\ k % 4 = 0 THEN Undefined ELSE num,
   title |-> CASE shape \in {"flat", "chain"} -> "t" \o num
               [] shape = "gaps" -> (IF k % 2 = 1 THEN "" ELSE "t" \o num)
               [] shape = "parts" -> "Art. " \o num \o "(r)."
               [] shape = "odd" -> "",
   caption |-> CASE shape = "flat" -> "c" \o num
                 [] shape = "gaps" -> (IF k % 3 = 0 THEN "" ELSE "c" \o num)
                 [] shape \in {"parts", "chain"} -> ""
                 [] shape = "odd" -> "ab"]

\* C24: extractArticlesSummary returns min(20, number of Article nodes)
\* entries, one per Article node in document order from the first, each
\* with the article's Num and with title and caption the concatenation of
\* all text leaves below the title or caption child, or the empty string,
\* not an absent field, when that child is missing.
C24_SummaryOfFirstTwenty ==
  last.op = "extractArticlesSummary" =>
    /\ Len(last.result) = (IF last.n < 20 THEN last.n ELSE 20)
    /\ \A k \in 1..Len(last.result) :
         /\ DOMAIN last.result[k] = {"articleNum", "title", "caption"}
         /\ last.result[k] = ExpectedEntry(k, last.shape)

\* A document of 22 articles in chapters and supplementary provisions was
\* summarised: 20 entries, the twentieth with the text of a title made of
\* several leaves and the empty string for the missing caption.
C24_Witness ==
  /\ last.op = "extractArticlesSummary"
  /\ last.n = 22 /\ last.shape = "parts"
  /\ Len(last.result) = 20
  /\ last.result[20] = [articleNum |-> "20", title |-> "Art. 20(r).",
                        caption |-> ""]

\* The documents a fetch for lawId can have delivered.
FetchedDocuments(lawId) ==
  {o.value : o \in {x \in Outcomes(lawId) : x.ok}}

\* In this step a fetch for lawId settles with data, which the wrapper
\* stores in the Content tier.
FetchedInStep(lawId) ==
  \E f \in 1..Len(fetches) :
    IsSettled(f) /\ fetches'[f].status = "fulfilled" /\ fetches[f].lawId = lawId

\* C25: extractArticle and extractArticlesSummary never modify the tree
\* they are given.  Whatever requests overlap, the document held in the
\* Content tier for an id is, after every step, one that was fetched for
\* the id, node for node and in child order; and a step in which no fetch
\* for the id delivers leaves the document held for the id as it was.
C25_TreeNotModified ==
  [][ \A i \in DOMAIN contentCache' :
        LET e == contentCache'[i] IN
        /\ e.value \in FetchedDocuments(e.key)
        /\ \A j \in DOMAIN contentCache :
             (contentCache[j].key = e.key /\ ~FetchedInStep(e.key)) =>
               e.value = contentCache[j].value
    ]_vars

\* Two overlapping requests for one law, one for the summary and one for an
\* item of an article, have both resumed on the document of one fetch, and
\* the Content tier holds that document.
C25_Witness ==
  \E r1, r2 \in Calls :
    /\ r1 # r2
    /\ requests[r1].pc = "done" /\ requests[r2].pc = "done"
    /\ requests[r1].call.lawId = requests[r2].call.lawId
    /\ requests[r1].path = "fetch" /\ requests[r2].path = "join"
    /\ requests[r1].observed.value.ok
    /\ ~Truthy(requests[r1].call.articleNum)
    /\ requests[r2].call.itemNum = "2"
    /\ "article" \in DOMAIN requests[r2].result.value.value
    /\ \E i \in DOMAIN contentCache :
         /\ contentCache[i].key = requests[r1].call.lawId
         /\ contentCache[i].value = requests[r1].observed.value.value

\* ------------------------------------------------------------------------
\* Law names.  A name or keyword is a JavaScript string, here the sequence
\* of its pieces: a piece is a white-space character (" " or "\n"), an
\* article reference such as "Art22" (the text matched by
\* /第[0-9...]+条/), or a run of other characters.  The names of the
\* dictionary are written in Latin letters: "Hojinzeiho" is 法人税法,
\* "Shohizeiho" is 消費税法, and so on.
\* ------------------------------------------------------------------------

IsSpace(c) == c \in {" ", "\n"}

IsArticleRef(c) == c \in {"Art5", "Art22"}

\* String.prototype.trim
Trim(s) ==
  LET inner == {i \in DOMAIN s : ~IsSpace(s[i])} IN
  IF inner = {} THEN << >>
  ELSE SubSeq(s, CHOOSE i \in inner : \A j \in inner : i <= j,
                 CHOOSE i \in inner : \A j \in inner : j <= i)

\* replace(/\s+/g, " "): every run of white space becomes one space.
CollapseSpaces(s) ==
  LET Kept(i) == ~IsSpace(s[i]) \/ i = 1 \/ ~IsSpace(s[i - 1])
      Build[i \in 0..Len(s)] ==
        IF i = 0 THEN << >>
        ELSE IF ~Kept(i) THEN Build[i - 1]
        ELSE Append(Build[i - 1], IF IsSpace(s[i]) THEN " " ELSE s[i])
  IN Build[Len(s)]

\* replace(/第[0-9...]+条.*$/, ""): the text from the first article
\* reference that no line break follows, to the end, is removed ("." does
\* not match a line break and "$" matches only at the end).
StripArticleRef(s) ==
  LET starts == {i \in DOMAIN s :
                   IsArticleRef(s[i]) /\ \A j \in (i + 1)..Len(s) : s[j] # "\n"}
  IN IF starts = {} THEN s
     ELSE SubSeq(s, 1, (CHOOSE i \in starts : \A j \in starts : i <= j) - 1)

BASIC_TAX_LAWS ==
  [name \in {"Hojinzeiho", "HojinzeihoSekorei", "Shotokuzeiho",
             "ShotokuzeihoSekorei", "Shohizeiho", "ShohizeihoSekorei",
             "Sozokuzeiho", "SozokuzeihoSekorei", "SozeiTokubetsuSochiho",
             "Chihozeiho"} |->
     CASE name = "Hojinzeiho" -> "340AC0000000034"
       [] name = "HojinzeihoSekorei" -> "340CO0000000097"
       [] name = "Shotokuzeiho" -> "340AC0000000033"
       [] name = "ShotokuzeihoSekorei" -> "340CO0000000096"
       [] name = "Shohizeiho" -> "363AC0000000108"
       [] name = "ShohizeihoSekorei" -> "363CO0000000360"
       [] name = "Sozokuzeiho" -> "325AC0000000073"
       [] name = "SozokuzeihoSekorei" -> "325CO0000000071"
       [] name = "SozeiTokubetsuSochiho" -> "332AC0000000026"
       [] name = "Chihozeiho" -> "325AC0000000226"]

\* The id of the law with the given name in the dictionary, or null (None).
resolveLawIdFromMap(lawName) ==
  IF lawName = << >> THEN None
  ELSE LET normalized == Trim(StripArticleRef(CollapseSpaces(Trim(lawName)))) IN
       IF Len(normalized) = 1 /\ normalized[1] \in DOMAIN BASIC_TAX_LAWS
       THEN Some(BASIC_TAX_LAWS[normalized[1]])
       ELSE None

\* ------------------------------------------------------------------------
\* The tools, each run from the call to its return before the next call is
\* made (a client that awaits every answer).  An operation takes the tiers
\* and counters s, the clock t and what the upstream API answers if it is
\* asked, and gives the tiers and counters it leaves, what its promise
\* settles with ([ok, value]: fulfilled with the value, or rejected with the
\* Error) and the sources it went to, in order.
\* ------------------------------------------------------------------------

\* The one element of a set of one element: The({F(x) : x \in {e}}) is F
\* of the value of e, with e worked out once.
The(S) == CHOOSE x \in S : TRUE

Fulfilled(v) == [ok |-> TRUE, value |-> v]

Rejected(message) == [ok |-> FALSE, value |-> Error(message)]

\* The answer of searchLaws that is made up from an id already known.
KnownLaw(lawId, title) ==
  [total_count |-> 1,
   count |-> 1,
   laws |-> <<[law_info |-> [law_id |-> lawId],
               revision_info |-> [law_title |-> title]]>>]

\* searchLaws.  params.keyword is None (undefined) or Some(string); response
\* is what the laws endpoint answers: a rejection, or the JSON of the body.
searchLaws(s, params, response, t) ==
  LET hasKeyword == params.keyword.present /\ params.keyword.value # << >>
      keywordOnly == hasKeyword /\ ~Truthy(params.lawNum) /\ ~Truthy(params.lawType)
      normalizedKeyword == Trim(StripArticleRef(params.keyword.value))
      lawIdFromMap == resolveLawIdFromMap(params.keyword.value)
      g == TierGet("lookup", s.lookup, s.stats, normalizedKeyword, t)
      mapHit == keywordOnly /\ lawIdFromMap.present
      cacheHit == keywordOnly /\ ~mapHit /\ g.value.present
      \* the tiers and counters when the API is asked
      s1 == IF keywordOnly
            THEN [s EXCEPT !.lookup = g.cache, !.stats = g.stats] ELSE s
      before == IF keywordOnly THEN <<"map", "lookup">> ELSE << >>
      jsonData == response.value
      firstLaw == jsonData.laws[1]
      lawTitle == IF "revision_info" \in DOMAIN firstLaw
                     /\ "law_title" \in DOMAIN firstLaw.revision_info
                     /\ firstLaw.revision_info.law_title # << >>
                  THEN firstLaw.revision_info.law_title
                  ELSE params.keyword.value
      stores == /\ hasKeyword
                /\ "laws" \in DOMAIN jsonData /\ Len(jsonData.laws) > 0
                /\ "law_info" \in DOMAIN firstLaw
                /\ "law_id" \in DOMAIN firstLaw.law_info
                /\ Truthy(firstLaw.law_info.law_id)
  IN
  IF mapHit
  THEN [s |-> [s EXCEPT !.lookup =
                 TierSet("lookup", s.lookup, normalizedKeyword,
                         lawIdFromMap.value, t)],
        settled |-> Fulfilled(KnownLaw(lawIdFromMap.value, normalizedKeyword)),
        path |-> <<"map">>]
  ELSE IF cacheHit
  THEN [s |-> s1,
        settled |-> Fulfilled(KnownLaw(g.value.value, normalizedKeyword)),
        path |-> <<"map", "lookup">>]
  ELSE IF ~response.ok
  THEN [s |-> s1, settled |-> response, path |-> Append(before, "api")]
  ELSE [s |-> IF stores
              THEN [s1 EXCEPT !.lookup =
                      TierSet("lookup", s1.lookup, lawTitle,
                              firstLaw.law_info.law_id, t)]
              ELSE s1,
        settled |-> Fulfilled(jsonData),
        path |-> Append(before, "api")]

\* getLawData run to its return: outcome is how the fetch settles if the
\* document has to be fetched.  The coordinator registers the fetch and
\* removes it when it settles, so the registry is as before at the return.
getLawData(s, lawId, articleNum, paragraphNum, itemNum, outcome, t) ==
  LET key == buildArticleKey(lawId, articleNum, paragraphNum, itemNum)
      asked == IF Truthy(articleNum) THEN <<"article">> ELSE << >>
      \* from the Content tier on, with the tiers and counters as s1
      FromContent(s1) ==
        The({LET s2 == [s1 EXCEPT !.content = c.cache, !.stats = c.stats]
                 s3 == IF c.value.present THEN s2
                       ELSE [s2 EXCEPT !.content =
                               StoreFetched(s2.content, lawId, outcome, t)]
                 lawData == IF c.value.present THEN c.value.value
                            ELSE outcome.value
                 fetched == IF c.value.present THEN << >> ELSE <<"fetch">>
             IN
             IF ~c.value.present /\ ~outcome.ok
             THEN [s |-> s3, settled |-> outcome,
                   path |-> asked \o <<"content", "fetch">>]
             ELSE IF Truthy(articleNum)
             THEN The({[s |-> [s3 EXCEPT !.article =
                                 TierSet("article", s3.article, key, result, t)],
                        settled |-> Fulfilled(result),
                        path |-> <<"article", "content">> \o fetched
                                   \o <<"extract", "store">>] :
                       result \in {extractArticle(lawData, articleNum,
                                                  paragraphNum, itemNum)}})
             ELSE [s |-> s3, settled |-> Fulfilled(Summary(lawData)),
                   path |-> <<"content">> \o fetched] :
             c \in {TierGet("content", s1.content, s1.stats, lawId, t)}})
  IN
  IF ~Truthy(articleNum) THEN FromContent(s)
  ELSE The({IF a.value.present
            THEN [s |-> [s EXCEPT !.article = a.cache, !.stats = a.stats],
                  settled |-> Fulfilled(a.value.value),
                  path |-> <<"article">>]
            ELSE FromContent([s EXCEPT !.article = a.cache, !.stats = a.stats]) :
            a \in {TierGet("article", s.article, s.stats, key, t)}})

\* What the law_data endpoint can answer: an HTTP error, the document.
FetchAnswers ==
  << [ok |-> FALSE, message |-> "e-Gov API error: 500 Internal Server Error"],
     [ok |-> TRUE, rev |-> 1] >>

\* How the fetch for lawId settles when the endpoint gives the answer.
Delivered(lawId, answer) ==
  IF answer.ok THEN Fulfilled(LawData(lawId, answer.rev))
  ELSE Rejected(answer.message)

DEFAULT_PREFETCH_LAWS ==
  <<<<"Hojinzeiho">>, <<"Shotokuzeiho">>, <<"Shohizeiho">>, <<"Sozokuzeiho">>>>

\* One turn of the loop of prefetchCommonLaws for lawName, from the tiers,
\* results and errors in acc; up is what the upstream answers for this name.
PrefetchOne(acc, lawName, up, t) ==
  LET fromMap == resolveLawIdFromMap(lawName)
      Failed(s, message) ==
        [s |-> s, results |-> acc.results,
         errors |-> Append(acc.errors, [lawName |-> lawName, error |-> message])]
      \* searchResult.laws?.[0]?.law_info?.law_id
      FirstLawId(searchResult) ==
        IF /\ "laws" \in DOMAIN searchResult
           /\ Len(searchResult.laws) > 0
           /\ "law_info" \in DOMAIN searchResult.laws[1]
           /\ "law_id" \in DOMAIN searchResult.laws[1].law_info
        THEN searchResult.laws[1].law_info.law_id
        ELSE Undefined
      \* from the check of the id on, with the tiers as s1
      Cache(s1, lawId) ==
        IF ~Truthy(lawId) THEN Failed(s1, "Law ID not found")
        ELSE The({IF ~gl.settled.ok
                  THEN Failed(gl.s, gl.settled.value.message)
                  ELSE [s |-> gl.s,
                        results |-> Append(acc.results,
                                      [lawName |-> lawName, lawId |-> lawId,
                                       status |-> "cached"]),
                        errors |-> acc.errors] :
                  gl \in {getLawData(s1, lawId, Undefined, Undefined, Undefined,
                                     Delivered(lawId, up.fetch), t)}})
  IN
  IF fromMap.present THEN Cache(acc.s, fromMap.value)
  ELSE The({IF ~sr.settled.ok THEN Failed(sr.s, sr.settled.value.message)
            ELSE Cache(sr.s, FirstLawId(sr.settled.value)) :
            sr \in {searchLaws(acc.s,
                               [keyword |-> Some(lawName), lawNum |-> Undefined,
                                lawType |-> Undefined, limit |-> 1],
                               up.search, t)}})

\* Variant: the first failure ends the loop, the names after it are left out.
prefetchCommonLawsStopping(s, lawNames, upstream, t) ==
  LET targetLaws == IF lawNames.present THEN lawNames.value
                    ELSE DEFAULT_PREFETCH_LAWS
      Loop[i \in 0..Len(targetLaws)] ==
        IF i = 0 THEN [s |-> s, results |-> << >>, errors |-> << >>]
        ELSE The({IF acc.errors # << >> THEN acc
                  ELSE PrefetchOne(acc, targetLaws[i], upstream[i], t) :
                    acc \in {Loop[i - 1]}})
  IN
  LET end == The({Loop[Len(targetLaws)]})
  IN [s |-> end.s,
      settled |-> Fulfilled(
        [prefetched |-> end.results,
         errors |-> IF Len(end.errors) > 0 THEN Some(end.errors) ELSE None,
         summary |-> [total |-> Len(targetLaws),
                      success |-> Len(end.results),
                      failed |-> Len(end.errors)]]),
      failures |-> end.errors]

\* prefetchCommonLaws: lawNames is None (omitted) or Some(list); upstream[i]
\* is what the upstream answers while the i-th name is processed.
prefetchCommonLaws(s, lawNames, upstream, t) ==
  LET targetLaws == IF lawNames.present THEN lawNames.value
                    ELSE DEFAULT_PREFETCH_LAWS
      \* the for loop: the turn for the i-th name starts from what the
      \* turns before it left
      Loop[i \in 0..Len(targetLaws)] ==
        IF i = 0 THEN [s |-> s, results |-> << >>, errors |-> << >>]
        ELSE The({PrefetchOne(acc, targetLaws[i], upstream[i], t) :
                    acc \in {Loop[i - 1]}})
  IN
  LET end == The({Loop[Len(targetLaws)]})
  IN [s |-> end.s,
      settled |-> Fulfilled(
        [prefetched |-> end.results,
         errors |-> IF Len(end.errors) > 0 THEN Some(end.errors) ELSE None,
         summary |-> [total |-> Len(targetLaws),
                      success |-> Len(end.results),
                      failed |-> Len(end.errors)]]),
      failures |-> end.errors]

\* ------------------------------------------------------------------------
\* ToolSpec: the CallToolRequestSchema handler, one tool call after another.
\* ------------------------------------------------------------------------

\* How many tool calls are made.
MaxCalls == 2

\* request.params.arguments was left out.
NoArguments == [missing |-> TRUE]

\* The tool calls made: the name and the arguments.
ToolCalls ==
  << [name |-> "search_laws",
      args |-> [keyword |-> Some(<<" ", "Hojinzeiho", " ", "Art22">>),
                lawNum |-> Undefined, lawType |-> Undefined, limit |-> 0]],
     [name |-> "search_laws",
      args |-> [keyword |-> Some(<<"Kaishaho">>),
                lawNum |-> Undefined, lawType |-> Undefined, limit |-> 5]],
     [name |-> "search_laws",
      args |-> [keyword |-> None,
                lawNum |-> "340AC0000000034", lawType |-> "Act", limit |-> 0]],
     [name |-> "search_laws", args |-> NoArguments],
     [name |-> "get_law_data",
      args |-> [lawId |-> "340AC0000000034", articleNum |-> "1",
                paragraphNum |-> "1", itemNum |-> "2"]],
     [name |-> "get_law_data",
      args |-> [lawId |-> "340AC0000000034", articleNum |-> "999",
                paragraphNum |-> Undefined, itemNum |-> Undefined]],
     [name |-> "get_law_data",
      args |-> [lawId |-> "363AC0000000108", articleNum |-> Undefined,
                paragraphNum |-> Undefined, itemNum |-> Undefined]],
     [name |-> "get_law_data",
      args |-> [lawId |-> Undefined, articleNum |-> "1",
                paragraphNum |-> Undefined, itemNum |-> Undefined]],
     [name |-> "prefetch_common_laws",
      args |-> [lawNames |-> Some(<< <<"Shohizeiho">>, <<"Kaishaho">>,
                                     <<"Hojinzeiho", "Art5">> >>)]],
     [name |-> "prefetch_common_laws", args |-> [lawNames |-> None]],
     [name |-> "prefetch_common_laws", args |-> NoArguments],
     [name |-> "get_cache_stats", args |-> NoArguments],
     [name |-> "delete_law", args |-> [lawId |-> "340AC0000000034"]],
     [name |-> "prefetch_common_laws",
      args |-> [lawNames |-> Some(<< <<"Shohizeiho">>, <<"Shohizeiho">> >>)]] >>

\* What the laws endpoint can answer: an HTTP error, no law, a law.
SearchResponses ==
  << Rejected("e-Gov API error: 503 Service Unavailable"),
     Fulfilled([total_count |-> 0, count |-> 0, laws |-> << >>]),
     Fulfilled([total_count |-> 1, count |-> 1,
                laws |-> <<[law_info |-> [law_id |-> "417AC0000000086"],
                            revision_info |-> [law_title |-> <<"Kaishaho">>]]>>]) >>

\* The names a prefetch call works through.
NamesOf(call) ==
  IF call.name = "prefetch_common_laws" /\ call.args # NoArguments
  THEN IF call.args.lawNames.present THEN call.args.lawNames.value
       ELSE DEFAULT_PREFETCH_LAWS
  ELSE << << >> >>

\* The choices of upstream answers for a call: per name, the number of the
\* search answer and of the fetch answer.  Only the endpoints the call can
\* ask are varied: a search asks the laws endpoint, a get the law_data
\* endpoint, a prefetch both but the laws endpoint only for a name the
\* dictionary does not know.
UpstreamChoices(call) ==
  LET names == NamesOf(call)
      Asked(name) ==
        CASE call.name = "search_laws" /\ call.args # NoArguments ->
               (DOMAIN SearchResponses) \X {1}
          [] call.name = "get_law_data" /\ call.args # NoArguments ->
               {1} \X (DOMAIN FetchAnswers)
          [] call.name = "prefetch_common_laws" /\ call.args # NoArguments ->
               (IF resolveLawIdFromMap(name).present THEN {1}
                ELSE DOMAIN SearchResponses) \X (DOMAIN FetchAnswers)
          [] OTHER -> {<<1, 1>>}
  IN {choice \in [DOMAIN names -> UNION {Asked(names[i]) : i \in DOMAIN names}] :
        \A i \in DOMAIN names : choice[i] \in Asked(names[i])}

\* The failure a statement of the handler throws, as the rejection of the
\* operation it stands for.
Thrown(message) ==
  [s |-> TiersAndStats, settled |-> Rejected(message), failures |-> << >>]

\* The body of the try block: the switch on the tool name.
ToolAnswer(call, choice) ==
  LET args == call.args
      missing == args = NoArguments
  IN
  CASE call.name = "search_laws" ->
         IF missing
         THEN Thrown("Cannot read properties of undefined (reading 'keyword')")
         ELSE searchLaws(TiersAndStats,
                         [args EXCEPT !.limit = IF @ = 0 THEN 10 ELSE @],
                         SearchResponses[choice[1][1]], now)
    [] call.name = "get_law_data" ->
         IF missing
         THEN Thrown("Cannot read properties of undefined (reading 'lawId')")
         ELSE IF ~Truthy(args.lawId) THEN Thrown("lawId is required")
         ELSE getLawData(TiersAndStats, args.lawId, args.articleNum,
                         args.paragraphNum, args.itemNum,
                         Delivered(args.lawId, FetchAnswers[choice[1][2]]), now)
    [] call.name = "prefetch_common_laws" ->
         IF missing
         THEN Thrown("Cannot read properties of undefined (reading 'lawNames')")
         ELSE prefetchCommonLaws(TiersAndStats, args.lawNames,
                [i \in DOMAIN NamesOf(call) |->
                   [search |-> SearchResponses[choice[i][1]],
                    fetch |-> FetchAnswers[choice[i][2]]]],
                now)
    [] call.name = "get_cache_stats" ->
         [s |-> TiersAndStats, settled |-> Fulfilled(getCacheStats)]
    [] OTHER -> Thrown("Unknown tool: " \o call.name)

\* Variant: a failure is returned as text without the isError mark.
PayloadUnmarked(settled) ==
  [content |-> <<[type |-> "text",
                  text |-> IF settled.ok THEN [json |-> settled.value]
                           ELSE [json |-> settled.value.message]]>>]

\* The handler: what the try block returns is the payload; what it throws,
\* or what an awaited operation rejects with, is caught and returned as a
\* payload marked isError.
Payload(settled) ==
  IF settled.ok
  THEN [content |-> <<[type |-> "text", text |-> [json |-> settled.value]]>>]
  ELSE [content |-> <<[type |-> "text",
                       text |-> "Error: " \o settled.value.message]>>,
        isError |-> TRUE]

CallTool(c, choice) ==
  /\ ops < MaxCalls
  /\ \E answer \in {ToolAnswer(ToolCalls[c], choice)} :
       /\ ops' = ops + 1
       /\ SetTiersAndStats(answer.s)
       /\ last' = [op |-> "tool",
                   call |-> c,
                   settled |-> answer.settled,
                   path |-> IF "path" \in DOMAIN answer
                            THEN answer.path ELSE << >>,
                   failed |-> IF "failures" \in DOMAIN answer
                              THEN answer.failures ELSE << >>,
                   payload |-> Payload(answer.settled)]
  /\ UNCHANGED <<now, ticks, focus, written, recency, gets>>
  /\ UNCHANGED requestState

ToolNext ==
  \E c \in DOMAIN ToolCalls :
    \E choice \in UpstreamChoices(ToolCalls[c]) : CallTool(c, choice)

ToolSpec == Init /\ [][ToolNext]_vars

\* The tool call just answered, and whether its operation threw or rejected.
Answered == last.op = "tool"

AnsweredCall == ToolCalls[last.call]

\* The answer is one text item.
IsPayload(p) ==
  /\ "content" \in DOMAIN p
  /\ Len(p.content) = 1
  /\ p.content[1].type = "text"

Marked(p) == "isError" \in DOMAIN p /\ p.isError

\* C26 as stated: every tool call is answered with a payload, and every
\* failure in it (an unknown tool, a missing lawId, missing arguments, an
\* upstream failure, also one met while prefetching) is returned as data
\* marked isError.
C26_EveryFailureMarked ==
  Answered =>
    /\ IsPayload(last.payload)
    /\ (~last.settled.ok \/ last.failed # << >>) => Marked(last.payload)

\* C26: no failure crosses the tool boundary.  Every tool call is answered
\* with a payload.  What the tool's operation throws or rejects with (an
\* unknown tool name, a missing lawId, missing arguments, an upstream failure
\* of search_laws or get_law_data) is returned marked isError with the text
\* "Error: " and the message; a failure met for one name while prefetching
\* is returned in the errors list of a payload that is not marked.
C26_RaisedFailuresMarked ==
  Answered =>
    /\ IsPayload(last.payload)
    /\ ~last.settled.ok =>
         /\ Marked(last.payload)
         /\ last.payload.content[1].text = "Error: " \o last.settled.value.message
    /\ last.settled.ok =>
         /\ "isError" \notin DOMAIN last.payload
         /\ last.payload.content[1].text = [json |-> last.settled.value]
    /\ AnsweredCall.name \notin {"search_laws", "get_law_data",
                                 "prefetch_common_laws", "get_cache_stats"} =>
         /\ Marked(last.payload)
         /\ last.payload.content[1].text = "Error: Unknown tool: " \o AnsweredCall.name
    /\ (/\ AnsweredCall.name = "get_law_data"
        /\ AnsweredCall.args # NoArguments
        /\ AnsweredCall.args.lawId = Undefined) =>
         /\ Marked(last.payload)
         /\ last.payload.content[1].text = "Error: lawId is required"
    /\ (AnsweredCall.name \in {"search_laws", "get_law_data"}
          /\ last.path # << >>
          /\ last.path[Len(last.path)] \in {"api", "fetch"}) =>
         \/ last.settled.ok
         \/ /\ Marked(last.payload)
            /\ \E i \in DOMAIN SearchResponses, j \in DOMAIN FetchAnswers :
                 \/ /\ ~SearchResponses[i].ok
                    /\ last.payload.content[1].text =
                         "Error: " \o SearchResponses[i].value.message
                 \/ /\ ~FetchAnswers[j].ok
                    /\ last.payload.content[1].text =
                         "Error: " \o FetchAnswers[j].message
    /\ last.failed # << >> =>
         /\ last.settled.ok
         /\ last.settled.value.errors = Some(last.failed)
         /\ last.settled.value.summary.failed = Len(last.failed)

\* get_law_data was called, the fetch of the document failed, and the
\* answer is the marked payload with the message of the failure.
C26_Witness ==
  /\ Answered
  /\ AnsweredCall.name = "get_law_data"
  /\ last.path = <<"article", "content", "fetch">>
  /\ Marked(last.payload)
  /\ last.payload.content[1].text =
       "Error: e-Gov API error: 500 Internal Server Error"

\* A search_laws call has just been answered, right after the same call was
\* answered from the dictionary.
RepeatedAfterMapHit ==
  /\ last.op = "tool" /\ last'.op = "tool"
  /\ ops' = ops + 1
  /\ last'.call = last.call
  /\ ToolCalls[last.call].name = "search_laws"
  /\ last.path = <<"map">>

\* C27: when the dictionary resolves a keyword to an id, searchLaws stores
\* keyword -> id in the Lookup tier, and a later identical keyword-only
\* search is answered from the Lookup tier (a Lookup hit is counted),
\* without going to the dictionary or to the search API.
C27_LaterSearchFromLookup ==
  [][ RepeatedAfterMapHit =>
        /\ \E i \in DOMAIN lookupCache :
             /\ lookupCache[i].key = <<"Hojinzeiho">>
             /\ lookupCache[i].value = "340AC0000000034"
        /\ stats'.lookup.hits = stats.lookup.hits + 1
        /\ \A i \in DOMAIN last'.path : last'.path[i] \notin {"map", "api"}
    ]_vars

\* The Article tier key of call r, once the call is made.
KeyOfCall(r) ==
  buildArticleKey(requests'[r].call.lawId, requests'[r].call.articleNum,
                  requests'[r].call.paragraphNum, requests'[r].call.itemNum)

\* The live entries of the Article tier under a key, before the step.
LiveArticles(key) ==
  SelectSeq(articleCache,
            LAMBDA e : e.key = key /\ now - e.start <= ArticleTTL)

\* How many gets a tier has counted.
Counted(st, tier) == st[tier].hits + st[tier].misses

\* C28: a getLawData request with a locator first gets from the Article
\* tier.  On a hit it returns the cached value at once: the Content tier is
\* not read or written and no fetch is started.  On a miss it goes on to
\* the Content tier get-or-fetch, and nothing is stored in the Article tier
\* yet; when the document is there, the request extracts from the full
\* document, sets the result in the Article tier under the same key, and
\* returns it.
C28_ArticleTierFirst ==
  [][ /\ \A r \in 1..MaxRequests :
           (IsCalled(r) /\ Truthy(requests'[r].call.articleNum)) =>
             /\ Counted(stats', "article") = Counted(stats, "article") + 1
             /\ LiveArticles(KeyOfCall(r)) # << >> =>
                  /\ stats'.article.hits = stats.article.hits + 1
                  /\ requests'[r].pc = "done"
                  /\ requests'[r].result =
                       Some([ok |-> TRUE,
                             value |-> LiveArticles(KeyOfCall(r))[1].value])
                  /\ contentCache' = contentCache
                  /\ stats'.content = stats.content
                  /\ inflightRequests' = inflightRequests
                  /\ PendingFetches' = PendingFetches
             /\ LiveArticles(KeyOfCall(r)) = << >> =>
                  /\ stats'.article.misses = stats.article.misses + 1
                  /\ Counted(stats', "content") = Counted(stats, "content") + 1
                  /\ requests'[r].pc = "await"
                  /\ \A i \in DOMAIN articleCache' :
                       articleCache'[i].key # KeyOfCall(r)
      /\ \A r \in Calls :
           (/\ IsResumed(r)
            /\ Truthy(requests[r].call.articleNum)
            /\ requests'[r].observed.value.ok) =>
             LET lawData == requests'[r].observed.value.value
                 result == extractArticle(lawData, requests[r].call.articleNum,
                                          requests[r].call.paragraphNum,
                                          requests[r].call.itemNum)
             IN /\ lawData \in FetchedDocuments(requests[r].call.lawId)
                /\ articleCache' # << >>
                /\ articleCache'[Len(articleCache')] =
                     [key |-> KeyOfCall(r), value |-> result, start |-> now]
                /\ requests'[r].result = Some([ok |-> TRUE, value |-> result])
                /\ stats' = stats
    ]_vars

\* A request with a locator missed the Article tier, got the document and
\* stored its article; a second request with the same locator was then
\* answered from the Article tier.
C28_Witness ==
  \E r \in Calls :
    /\ requests[r].pc = "done" /\ requests[r].path = "article"
    /\ requests[r].call.itemNum = "2"
    /\ stats.article.hits = 1 /\ stats.article.misses = 1
    /\ Counted(stats, "content") = 1
    /\ \E i \in DOMAIN articleCache :
         articleCache[i].value = requests[r].result.value.value

\* ------------------------------------------------------------------------
\* AgeSpec: gets and sets on one tier with time passing in between, a
\* millisecond or a whole TTL at a time.  A wait that follows a get that
\* returned a value remembers the key, the value and the time of that read
\* for as long as only waits follow.
\* ------------------------------------------------------------------------

\* How often time passes.
MaxWaits == 2

Wait(d) ==
  /\ ticks < MaxWaits
  /\ ticks' = ticks + 1
  /\ now' = now + d
  /\ last' = IF last.op = "get" /\ last.result.present
             THEN [op |-> "wait", read |-> TRUE, i |-> last.i,
                   value |-> last.result.value, readAt |-> now]
             ELSE IF last.op = "wait" THEN last
             ELSE [op |-> "wait", read |-> FALSE]
  /\ TiersAt(now + d)
  /\ UNCHANGED <<stats, focus, ops, written, recency, gets>>
  /\ UNCHANGED requestState

\* The keys read and written: one the tier may hold at the start, one new.
AgeKeys(tier) == {1, TierMax(tier)}

AgeNext ==
  \/ \E i \in AgeKeys(focus) : CallGet(i)
  \/ \E i \in AgeKeys(focus), v \in Values : CallSet(i, v)
  \/ \E d \in {1, TierTTL(focus)} : Wait(d)

AgeSpec == TierInit /\ [][AgeNext]_vars

\* C29: every read hit refreshes the entry, resetting its age: an entry
\* read at time t, and not evicted, replaced or cleared since, is still
\* returned by a get at any time before t + TTL.
C29_ReadRefreshesAge ==
  [][ (/\ last.op = "wait" /\ last.read
       /\ last'.op = "get" /\ last'.i = last.i
       /\ now < last.readAt + StatedTTL(focus)) =>
        last'.result = Some(last.value)
    ]_vars

\* ------------------------------------------------------------------------
\* The place of the article in the document, stated without the traversal:
\* a node is named by its path, the list of child positions leading to it
\* from the root, and depth-first pre-order is the order of the paths in
\* which a node comes before its descendants and before everything below
\* its later siblings.
\* ------------------------------------------------------------------------

RECURSIVE PathsOf(_)

PathsOf(node) ==
  {<< >>} \cup
    UNION {{<<i>> \o p : p \in PathsOf(Children(node)[i])} :
             i \in DOMAIN Children(node)}

RECURSIVE NodeAt(_, _)

NodeAt(node, path) ==
  IF path = << >> THEN node
  ELSE NodeAt(Children(node)[Head(path)], Tail(path))

\* p is visited before q in depth-first pre-order.
PreOrderBefore(p, q) ==
  /\ p # q
  /\ \/ Len(p) < Len(q) /\ SubSeq(q, 1, Len(p)) = p
     \/ \E k \in 1..Len(p) :
          /\ k <= Len(q)
          /\ SubSeq(p, 1, k - 1) = SubSeq(q, 1, k - 1)
          /\ p[k] < q[k]

\* The paths of the Article nodes of the document just searched whose Num
\* is, as a string, the requested article number.
ArticlePaths ==
  {p \in PathsOf(last.lawData.law_full_text) :
     LET n == NodeAt(last.lawData.law_full_text, p) IN
       Tag(n) = "Article" /\ Num(n) = last.articleNum}

FirstArticlePath ==
  CHOOSE p \in ArticlePaths :
    \A q \in ArticlePaths \ {p} : PreOrderBefore(p, q)

\* C30: extractArticle takes the first node in depth-first pre-order whose
\* tag is Article and whose Num is the string articleNum: where no node has
\* that very string the article is not found, and where one has and no
\* paragraph is given the result is that node as it stands in the document,
\* all its children in their original order.
C30_FirstInPreOrder ==
  Extracted =>
    /\ ArticlePaths = {} =>
         /\ "article" \notin DOMAIN last.result
         /\ last.result.error = "Article " \o last.articleNum \o " not found"
    /\ (ArticlePaths # {} /\ last.paragraphNum = Undefined) =>
         /\ "error" \notin DOMAIN last.result
         /\ last.result.article =
              NodeAt(last.lawData.law_full_text, FirstArticlePath)
    /\ (ArticlePaths # {} /\ last.paragraphNum # Undefined) =>
         ("article" \in DOMAIN last.result =>
            LET first == NodeAt(last.lawData.law_full_text, FirstArticlePath) IN
              /\ Tag(last.result.article) = "Article"
              /\ Num(last.result.article) = last.articleNum
              /\ \A i \in DOMAIN Children(last.result.article) :
                   \E j \in DOMAIN Children(first) :
                     /\ Tag(Children(first)[j]) =
                          Tag(Children(last.result.article)[i])
                     /\ Tag(Children(first)[j]) = "Paragraph" =>
                          Num(Children(first)[j]) = last.paragraphNum
                     /\ Tag(Children(first)[j]) # "Paragraph" =>
                          Children(first)[j] = Children(last.result.article)[i])

\* Article 1 was asked for, without a paragraph, of the law with three
\* articles 1, one inside another: the outer one came back, with its caption
\* and its two paragraphs, the inner article still in the first of them.
C30_Witness ==
  /\ Extracted
  /\ last.lawData.law_full_text = SelfNestedTree
  /\ last.articleNum = "1"
  /\ last.paragraphNum = Undefined /\ last.itemNum = Undefined
  /\ Cardinality(ArticlePaths) = 3
  /\ FirstArticlePath = <<1, 1>>
  /\ last.result.article = SelfNestedTree.children[1].children[1]
  /\ Len(last.result.article.children) = 3

\* Article "02" was asked of the nested law, which has articles "2": not found.
C30_WitnessStringEquality ==
  /\ Extracted
  /\ last.lawData.law_full_text = NestedTree
  /\ last.articleNum = "02"
  /\ last.result.error = "Article 02 not found"

\* ------------------------------------------------------------------------
\* LiveSpec: the request path under the scheduling the program runs on.  The
\* event loop runs every continuation that is runnable (Resume), and the
\* upstream is taken to settle every fetch it was sent, one way or another:
\* the fetcher of getLawData sets no timeout of its own.
\* ------------------------------------------------------------------------

\* The upstream answers fetch f, with a document or with a failure.
SettleSomehow(f) ==
  \/ \E rev \in Revisions :
       SettleFetch(f, [ok |-> TRUE, value |-> LawData(fetches[f].lawId, rev)])
  \/ \E e \in FetchErrors :
       SettleFetch(f, [ok |-> FALSE, value |-> Error(e)])

\* The calls are made for one article; the tiers may be cleared at any time.
LiveNext ==
  \/ \E lawId \in LawIds : CallGetLawData(lawId, <<"1", "1", "2">>)
  \/ \E f \in 1..MaxRequests : SettleSomehow(f)
  \/ Resume
  \/ clearAllCaches

LiveSpec ==
  /\ Init
  /\ [][LiveNext]_vars
  /\ WF_vars(Resume)
  /\ \A f \in 1..MaxRequests : WF_vars(SettleSomehow(f))

\* Call r of getLawData has been made and has not returned.
Awaiting(r) == r <= Len(requests) /\ requests[r].pc = "await"

\* C31: if every upstream fetch eventually settles, every getLawData call
\* (and with it the getContentCacheWithFetch call it awaits) eventually
\* settles, and a registry that holds a fetch eventually becomes empty
\* (inflight.active returns to 0).
C31_EveryCallSettles ==
  /\ \A r \in 1..MaxRequests : Awaiting(r) ~> ~Awaiting(r)
  /\ (getCacheStats.inflight.active > 0) ~> (getCacheStats.inflight.active = 0)

\* Two calls waited for one fetch, the second having joined it; the fetch
\* has failed, both calls have returned with the failure, and the registry
\* is empty.
C31_Witness ==
  /\ Len(requests) = 2
  /\ requests[1].pc = "done" /\ requests[2].pc = "done"
  /\ requests[1].path = "fetch" /\ requests[2].path = "join"
  /\ ~requests[1].result.value.ok /\ ~requests[2].result.value.ok
  /\ Len(fetches) = 1 /\ fetches[1].status = "rejected"
  /\ inflightRequests = {}

\* ------------------------------------------------------------------------
\* Expiry (TierSpec)
\* ------------------------------------------------------------------------

\* The keys the tier called holds, and those of them that are stale now.
HeldKeys == CacheKeys(CacheOf(focus))

StaleKeys ==
  {CacheOf(focus)[i].key : i \in {j \in 1..Len(CacheOf(focus)) :
     IsStale(CacheOf(focus)[j], StatedTTL(focus), now)}}

\* The size getCacheStats reports for a tier: lookupCache.size and so on.
SizeReported(tier) == LRUSize(CacheOf(tier))

\* C32: expiry is lazy.  The passage of time alone changes no tier and no
\* size that getCacheStats reports; a key leaves a tier only in a get of that
\* key (which finds it stale), in a set that evicts the least recently used
\* entry, or in clearAllCaches; and a get of a stale key drops that entry.
C32_ExpiryIsLazy ==
  [][ /\ last'.op = "pass" =>
           /\ lookupCache' = lookupCache
           /\ contentCache' = contentCache
           /\ articleCache' = articleCache
           /\ \A tier \in Tiers : SizeReported(tier)' = SizeReported(tier)
      /\ HeldKeys \ HeldKeys' \subseteq
           CASE last'.op = "get" -> {TierKey(focus, last'.i)} \cap StaleKeys
             [] last'.op = "set" ->
                  IF LRUSize(CacheOf(focus)) >= StatedMax(focus)
                  THEN {CacheOf(focus)[1].key} ELSE {}
             [] last'.op = "clear" -> HeldKeys
             [] OTHER -> {}
      /\ (last'.op = "get" /\ TierKey(focus, last'.i) \in StaleKeys) =>
           /\ ~last'.result.present
           /\ HeldKeys' = HeldKeys \ {TierKey(focus, last'.i)}
           /\ SizeReported(focus)' = SizeReported(focus) - 1
    ]_vars

\* A tier was filled, more than its TTL has passed and nothing was called
\* since: every entry is stale, and the size reported is still the number
\* of entries.
C32_Witness ==
  /\ last.op = "pass"
  /\ HeldKeys # {}
  /\ StaleKeys = HeldKeys
  /\ getCacheStats[focus].size = TierMax(focus) - 1
  /\ SizeReported(focus) = getCacheStats[focus].size

\* ------------------------------------------------------------------------
\* TransparentSpec: getLawData called for one article after another, each
\* call run to its return, against an upstream that gives the same document
\* for an id at every fetch; between the calls time may pass (longer than
\* the TTL of the Content and Article tiers) and the caches may be cleared.
\* ------------------------------------------------------------------------

\* The locators asked for: an item, an article that does not exist, a whole
\* article, and an article number that contains the text the key puts
\* before a paragraph number.
TransparentLocators ==
  { <<"1", "1", "2">>,
    <<"1#P:1", Undefined, "2">>,
    <<"999", Undefined, Undefined>>,
    <<"1", Undefined, Undefined>> }

\* What the upstream gives for lawId, at every fetch.
TheDocument(lawId) == LawData(lawId, 1)

RequestArticle(lawId, loc) ==
  /\ ops < MaxCalls
  /\ ops' = ops + 1
  /\ \E answer \in {getLawData(TiersAndStats, lawId, loc[1], loc[2], loc[3],
                               Fulfilled(TheDocument(lawId)), now)} :
       /\ SetTiersAndStats(answer.s)
       /\ last' = [op |-> "getLawData", lawId |-> lawId, loc |-> loc,
                   settled |-> answer.settled, path |-> answer.path]
  /\ UNCHANGED <<now, ticks, focus, written, recency, gets>>
  /\ UNCHANGED requestState

TransparentNext ==
  \/ \E lawId \in LawIds, loc \in TransparentLocators : RequestArticle(lawId, loc)
  \/ \E d \in Deltas : Tick(d)
  \/ clearAllCaches

TransparentSpec == Init /\ [][TransparentNext]_vars

\* What extractArticle gives for the locator of the last call on a fresh
\* fetch of the document.
FreshlyExtracted ==
  extractArticle(TheDocument(last.lawId), last.loc[1], last.loc[2], last.loc[3])

\* C33: the cache is transparent.  Against an upstream that returns the same
\* document for an id on every fetch, getLawData for an article returns what
\* extractArticle gives on a fresh fetch of the id with the same locator,
\* whatever was requested, expired or cleared before.
C33_CacheTransparent ==
  last.op = "getLawData" => last.settled = Fulfilled(FreshlyExtracted)

\* A getLawData call has just returned (TransparentSpec).
ArticleReturned == last'.op = "getLawData" /\ ops' = ops + 1

ReturnedKey ==
  buildArticleKey(last'.lawId, last'.loc[1], last'.loc[2], last'.loc[3])

\* A result of extractArticle that reports something missing.
IsNotFound(result) == "error" \in DOMAIN result

\* C34: not-found outcomes are cached like successes.  When getLawData
\* returns a not-found result, the Article tier holds that result under the
\* key of the locator; and a request whose key has a live not-found entry is
\* answered with that entry from the Article tier alone: the Content tier is
\* not read (its counters and entries stay) and nothing is fetched.
C34_NotFoundCached ==
  [][ ArticleReturned =>
        /\ (last'.settled.ok /\ IsNotFound(last'.settled.value)) =>
             \E i \in DOMAIN articleCache' :
               /\ articleCache'[i].key = ReturnedKey
               /\ articleCache'[i].value = last'.settled.value
        /\ \A i \in DOMAIN articleCache :
             (/\ articleCache[i].key = ReturnedKey
              /\ ~IsStale(articleCache[i], ArticleTTL, now)
              /\ IsNotFound(articleCache[i].value)) =>
               /\ last'.settled = Fulfilled(articleCache[i].value)
               /\ last'.path = <<"article">>
               /\ contentCache' = contentCache
               /\ stats'.content = stats.content
               /\ stats'.article.hits = stats.article.hits + 1
    ]_vars

\* Article 999 was asked for twice: the second answer is the not-found
\* result, taken from the Article tier, and the document was read once.
C34_Witness ==
  /\ last.op = "getLawData"
  /\ last.loc = <<"999", Undefined, Undefined>>
  /\ last.path = <<"article">>
  /\ last.settled.value.error = "Article 999 not found"
  /\ stats.article = [hits |-> 1, misses |-> 1]
  /\ stats.content = [hits |-> 0, misses |-> 1]

\* ------------------------------------------------------------------------
\* The registry under clearAllCaches and resetCacheStats (Spec)
\* ------------------------------------------------------------------------

\* A step of clearAllCaches or of resetCacheStats: no call is made, no fetch
\* settles, no continuation runs and no time passes.
IsClearOrReset ==
  /\ now' = now
  /\ Len(requests') = Len(requests)
  /\ microtasks' = microtasks
  /\ \A f \in 1..Len(fetches) : ~IsSettled(f)

\* The calls waiting for fetch f, in this state and in the next.
WaitingFor(f) == {r \in Calls : requests[r].pc = "await" /\ requests[r].promise = f}

WaitingForNext(f) ==
  {r \in 1..Len(requests') : requests'[r].pc = "await" /\ requests'[r].promise = f}

\* C35: clearAllCaches and resetCacheStats leave the in-flight registry as
\* it is: a fetch unresolved when either runs stays registered and keeps its
\* waiters.  A key leaves the registry only in the step in which its fetch
\* settles; and a fetch that settles, whatever ran before, makes each of its
\* waiters runnable with its outcome and, if it brought a document, stores
\* it in the Content tier.
C35_RegistryOutlivesClear ==
  [][ /\ IsClearOrReset =>
           /\ inflightRequests' = inflightRequests
           /\ getCacheStats'.inflight.active = getCacheStats.inflight.active
           /\ \A f \in PendingFetches :
                /\ fetches'[f].status = "pending"
                /\ [key |-> fetches[f].key, promise |-> f] \in inflightRequests'
                /\ WaitingForNext(f) = WaitingFor(f)
      /\ \A b \in inflightRequests \ inflightRequests' : IsSettled(b.promise)
      /\ \A f \in 1..Len(fetches) : IsSettled(f) =>
           /\ MapHas(inflightRequests, fetches[f].key)
           /\ ~MapHas(inflightRequests', fetches[f].key)
           /\ {m.req : m \in {microtasks'[i] : i \in DOMAIN microtasks'}}
                = WaitingFor(f)
           /\ \A i \in DOMAIN microtasks' :
                microtasks'[i].settled.value = fetches'[f].value
           /\ fetches'[f].status = "fulfilled" =>
                \E i \in DOMAIN contentCache' :
                  /\ contentCache'[i].key = fetches[f].lawId
                  /\ contentCache'[i].value = fetches'[f].value
    ]_vars

\* clearAllCaches ran while two calls were waiting for one fetch; the fetch
\* then brought the document: it is in the Content tier, both calls have
\* returned with a result, and the registry is empty.
C35_Witness ==
  /\ last.op = "clearAllCaches"
  /\ Len(requests) = 2
  /\ requests[1].pc = "done" /\ requests[2].pc = "done"
  /\ requests[1].path = "fetch" /\ requests[2].path = "join"
  /\ requests[1].result.value.ok /\ requests[2].result.value.ok
  /\ Len(fetches) = 1 /\ fetches[1].status = "fulfilled"
  /\ Len(contentCache) = 1
  /\ inflightRequests = {}
  /\ stats = ZeroStats

\* ------------------------------------------------------------------------
\* Counting the callers of one fetch (Spec)
\* ------------------------------------------------------------------------

\* The calls made so far that went to fetch f: the one that started it and
\* those that joined it.
CallersOf(f) ==
  {r \in Calls : requests[r].pc # "gone" /\ requests[r].promise = f}

\* C36: a caller that joins an in-flight fetch is counted as a Content miss.
\* A call for an id whose fetch is unresolved adds one to the misses of the
\* Content tier and nothing to its hits, and starts no fetch; so while the
\* counters are not reset, N callers of one fetch have brought N misses, no
\* hit and one fetch.
C36_JoinCountsAsMiss ==
  [][ \A r \in 1..MaxRequests :
        (IsCalled(r) /\ requests'[r].path \in {"fetch", "join"}) =>
          /\ stats'.content.misses = stats.content.misses + 1
          /\ stats'.content.hits = stats.content.hits
          /\ requests'[r].path = "join" <=>
               requests'[r].call.pendingAtCall # 0
          /\ requests'[r].path = "join" =>
               /\ fetches'[requests'[r].promise].status = "pending"
               /\ Len(fetches') = Len(fetches)
               /\ inflightRequests' = inflightRequests
               /\ requests'[r].promise = requests'[r].call.pendingAtCall
          /\ requests'[r].path = "fetch" => Len(fetches') = Len(fetches) + 1
    ]_vars

\* Two callers asked for the same uncached id before its fetch settled: two
\* Content misses, no hit, one fetch, still unresolved.
C36_Witness ==
  /\ Len(requests) = 2
  /\ requests[1].pc = "await" /\ requests[2].pc = "await"
  /\ requests[1].call.lawId = requests[2].call.lawId
  /\ CallersOf(1) = {1, 2}
  /\ Len(fetches) = 1 /\ fetches[1].status = "pending"
  /\ stats.content = [hits |-> 0, misses |-> 2]
  /\ getCacheStats.inflight.active = 1

\* ------------------------------------------------------------------------
\* prefetch_common_laws (ToolSpec)
\* ------------------------------------------------------------------------

\* A prefetch_common_laws call has been answered by prefetchCommonLaws, and
\* the names it was to work through.
Prefetched ==
  /\ Answered
  /\ AnsweredCall.name = "prefetch_common_laws"
  /\ AnsweredCall.args # NoArguments

PrefetchNames == NamesOf(AnsweredCall)

PrefetchErrors ==
  IF last.settled.value.errors.present
  THEN last.settled.value.errors.value ELSE << >>

\* The names of a list of entries, in the order of the list.
NamesIn(entries) == [i \in DOMAIN entries |-> entries[i].lawName]

\* The names at the positions in D, in the order of the list.
NamesAt(names, D) ==
  LET at == SelectSeq([i \in DOMAIN names |-> i], LAMBDA i : i \in D)
  IN [k \in DOMAIN at |-> names[at[k]]]

\* C37: prefetchCommonLaws works through every requested name once, in the
\* order of the list: the positions of the list fall into two parts, the
\* prefetched list holds the names of one part and the errors list the names
\* of the other, each in the order of the request and each position once.
\* So a failure for one name does not stop the names after it.  In the
\* summary total is the number of names and equals success + failed, and
\* errors is left out exactly when nothing failed.
C37_EveryNameOnce ==
  Prefetched =>
    LET result == last.settled.value
        done == result.prefetched
        failed == PrefetchErrors
    IN
    /\ last.settled.ok
    /\ \E D \in SUBSET DOMAIN PrefetchNames :
         /\ NamesIn(done) = NamesAt(PrefetchNames, D)
         /\ NamesIn(failed) = NamesAt(PrefetchNames, DOMAIN PrefetchNames \ D)
    /\ result.summary.total = Len(PrefetchNames)
    /\ result.summary.success = Len(done)
    /\ result.summary.failed = Len(failed)
    /\ result.summary.total = result.summary.success + result.summary.failed
    /\ result.errors.present <=> failed # << >>
    /\ \A j \in DOMAIN done : done[j].status = "cached" /\ Truthy(done[j].lawId)

\* Three names were given: the document of the first could not be fetched,
\* the second was not found by the search, the third was cached.
C37_Witness ==
  /\ Prefetched
  /\ Len(PrefetchNames) = 3
  /\ NamesIn(PrefetchErrors) = <<PrefetchNames[1], PrefetchNames[2]>>
  /\ PrefetchErrors[1].error = "e-Gov API error: 500 Internal Server Error"
  /\ PrefetchErrors[2].error = "Law ID not found"
  /\ NamesIn(last.settled.value.prefetched) = <<PrefetchNames[3]>>
  /\ last.settled.value.summary = [total |-> 3, success |-> 1, failed |-> 2]

\* The same name was given twice: the first turn failed, the second cached it.
C37_WitnessSameNameTwice ==
  /\ Prefetched
  /\ Len(PrefetchNames) = 2
  /\ PrefetchNames[1] = PrefetchNames[2]
  /\ NamesIn(PrefetchErrors) = <<PrefetchNames[1]>>
  /\ NamesIn(last.settled.value.prefetched) = <<PrefetchNames[2]>>

====
